---- MODULE Spec2Model ----
(***************************************************************************)
(* Model of the dependency-aware loader of salesforce-migration-automatic  *)
(* (uploadDatasets and the functions it calls).  One load run: the parsed  *)
(* datasets are classified, converted and submitted pass after pass until  *)
(* a pass produces no uploading.                                           *)
(***************************************************************************)
EXTENDS Integers, Sequences, FiniteSets, TLC

\* ------------------------------------------------------------------ bounds
\* largest number of data rows in the Account file and in the Contact file
MaxAccounts == 2
MaxContacts == 1

\* ------------------------------------------------------------ value domains
\* the values a cell of each column of the two input files can hold: the
\* source ids "a", "b", "c" ("a" occurs as an Account id and as a Contact
\* id), and "" in a reference column
ColumnValues ==
  [Account |-> << {"a", "b"}, {"", "a"} >>,
   Contact |-> << {"c", "a"}, {"", "a", "b"}, {"", "a"} >>]
\* all source ids
RefIds == {"a", "b", "c"}
\* source ids the idMap can hold when the run starts
SeedIds == {"a"}
\* the value of an absent cell / missing map entry (JavaScript undefined)
Undefined == "undefined"
\* target id of a record that already exists in the target org
ExistingId == "t0"
\* the n-th id the target org hands out for a created record
NewId(n) == "t" \o ToString(n)

\* --------------------------------------------------------------- describer
\* The descriptions the Describer holds: object -> fields.
Descriptions ==
  [Account |-> << [name |-> "Id", type |-> "id", createable |-> FALSE,
                   referenceTo |-> <<>>],
                  [name |-> "ParentId", type |-> "reference",
                   createable |-> TRUE, referenceTo |-> <<"Account">>],
                  [name |-> "Name", type |-> "string", createable |-> TRUE,
                   referenceTo |-> <<>>],
                  [name |-> "Website", type |-> "url", createable |-> TRUE,
                   referenceTo |-> <<>>] >>,
   Contact |-> << [name |-> "Id", type |-> "id", createable |-> FALSE,
                   referenceTo |-> <<>>],
                  [name |-> "AccountId", type |-> "reference",
                   createable |-> TRUE, referenceTo |-> <<"Account">>],
                  [name |-> "ReportsToId", type |-> "reference",
                   createable |-> TRUE, referenceTo |-> <<"Contact">>],
                  [name |-> "ns__Ref__c", type |-> "reference",
                   createable |-> TRUE, referenceTo |-> <<"Account">>] >>,
   Case |-> << [name |-> "Id", type |-> "id", createable |-> FALSE,
                referenceTo |-> <<>>],
               [name |-> "AccountId", type |-> "reference",
                createable |-> TRUE, referenceTo |-> <<"Account">>],
               [name |-> "OwnerId", type |-> "reference",
                createable |-> TRUE, referenceTo |-> <<"Group", "User">>] >>]

\* the headers of the two input files, in input order
InputHeaders == [Account |-> <<"Id", "ParentId">>,
                 Contact |-> <<"Id", "AccountId", "ReportsToId">>]

NoField == [name |-> Undefined, type |-> Undefined, createable |-> FALSE,
            referenceTo |-> <<>>]

\* describer.findSObjectDescription without a default namespace: map.get
findSObjectDescription(object) ==
  IF object \in DOMAIN Descriptions THEN Descriptions[object] ELSE <<>>

hasSObjectDescription(object) == object \in DOMAIN Descriptions

\* describer.findFieldDescription: the field named fieldName, or NoField
findFieldDescription(object, fieldName) ==
  LET fields == findSObjectDescription(object)
      hits == {i \in 1..Len(fields) : fields[i].name = fieldName}
  IN IF hits = {} THEN NoField ELSE fields[CHOOSE i \in hits : TRUE]

\* ------------------------------------------------------------------- state
VARIABLES
  datasets,      \* sequence of [object, headers, rows]; rows are mutated
  targetIds,     \* the TargetIdSet
  idMap,         \* source id -> target id
  uploadStatus,  \* the status carried from pass to pass and returned
  uploadings,    \* batches of the current pass not yet created, in Map order
  blocked,       \* the blocked list built by the current pass
  successes,     \* successes collected by the running uploadRecords call
  failures,      \* failures collected by the running uploadRecords call
  pc,            \* "parse", "resolve", "classify", "upload", "return", "done"
                 \* or "failed"
  reports,       \* the progress reports issued so far
  nextId,        \* the next id the target org hands out
  input,         \* history: the datasets as parsed
  initialIdMap,  \* history: the idMap at the start of the run
  pass,          \* history: number of the current pass, from 1
  sent,          \* history: every record submitted to create
  notLoadables,  \* history: rows classified as already mapped
  creates,       \* history: number of create calls issued
  run,           \* number of the load run, from 1
  firstRun,      \* history: how the first load run ended
  policies,      \* the mapping policies given to loadCSVData
  targetOrg,     \* the records of the target org before the run, by object
  error,         \* the error the run ended with, "" if none
  initialTargetIds,  \* history: the target ids the caller selected
  cancelled,     \* the caller has asked to cancel the run
  queries,       \* dump: the DumpQuery list given to dumpAsCSVData
  options,       \* dump: the DumpOptions (idMap as its list of entries)
  fetchedRecordsMap,   \* dump: object -> list of the records fetched
  fetchedIdsMap,       \* dump: object -> set of the ids fetched
  newlyFetchedIdsMap,  \* dump: object -> set of the ids newly fetched
  sameMap,       \* dump: newlyFetchedIdsMap is the Map object fetchedIdsMap
  prevCount,     \* dump: fetchedCount when the current iteration began
  fetchedCount,  \* dump: the total calcFetchedCount gave last
  csvs,          \* dump: the CSV of each query, as header and rows
  args,          \* the arguments of a call of a utility function
  result         \* what the call returned

vars == <<datasets, targetIds, idMap, uploadStatus, uploadings, blocked,
          successes, failures, pc, reports, nextId, input, initialIdMap, pass,
          sent,
          notLoadables, creates, run, firstRun, policies,
          targetOrg, error, initialTargetIds, cancelled, queries, options,
          fetchedRecordsMap, fetchedIdsMap, newlyFetchedIdsMap, sameMap,
          prevCount, fetchedCount, csvs, args, result>>

\* the state of a dump, of a utility call, and the cancellation request
dumpVars == <<queries, options, fetchedRecordsMap, fetchedIdsMap,
              newlyFetchedIdsMap, sameMap, prevCount, fetchedCount, csvs>>
utilVars == <<args, result>>

\* no dump and no utility call is under way
NoDump ==
  /\ queries = <<>>
  /\ options = [hasIdMap |-> FALSE, idMap |-> <<>>, defaultNamespace |-> ""]
  /\ fetchedRecordsMap = <<>>
  /\ fetchedIdsMap = <<>>
  /\ newlyFetchedIdsMap = <<>>
  /\ sameMap = FALSE
  /\ prevCount = 0
  /\ fetchedCount = 0
  /\ csvs = <<>>
NoCall == args = <<>> /\ result = <<>>

\* ---------------------------------------------------------- row classifier
SeqToSet(s) == {s[i] : i \in 1..Len(s)}

\* Map.has / Map.get / Map.set on the idMap
Has(m, key) == key \in DOMAIN m
Get(m, key) == IF key \in DOMAIN m THEN m[key] ELSE Undefined
Set(m, key, value) ==
  [x \in DOMAIN m \cup {key} |-> IF x = key THEN value ELSE m[x]]

\* index of the id column: the last header whose field has type id, 0 if none
idIndexOf(object, headers) ==
  LET ids == {i \in 1..Len(headers) :
                findFieldDescription(object, headers[i]).type = "id"}
  IN IF ids = {} THEN 0 ELSE CHOOSE i \in ids : \A j \in ids : j <= i

\* a test that lets every reference field count
isKnownReference_any(field) == field.type = "reference"

\* does the reference field count: some referenceTo object is described
isKnownReference(field) ==
  /\ field.type = "reference"
  /\ \E j \in 1..Len(field.referenceTo) :
        hasSObjectDescription(field.referenceTo[j])

RECURSIVE refFieldsFrom(_, _, _)
\* the reference columns that take part, in header order, from column i on
refFieldsFrom(object, headers, i) ==
  IF i > Len(headers) THEN <<>>
  ELSE LET field == findFieldDescription(object, headers[i])
           rest == refFieldsFrom(object, headers, i + 1)
       IN IF isKnownReference(field)
          THEN <<[field |-> field.name, index |-> i]>> \o rest
          ELSE rest

refFieldsOf(object, headers) == refFieldsFrom(object, headers, 1)

\* a classifier that notes the blocker but leaves the row uploadable
scanRefField_stillUploadable(row, id, refField, st, m) ==
  LET refId == row.cells[refField.index]
      targets1 ==
        IF refId = "" THEN st.targetIds
        ELSE IF refId \in st.targetIds THEN st.targetIds \cup {id}
        ELSE IF id \in st.targetIds THEN st.targetIds \cup {refId}
        ELSE st.targetIds
      unresolved == refId # "" /\ ~Has(m, refId)
  IN [isUploadable  |-> st.isUploadable,
      blockingField |-> IF unresolved THEN refField.field
                        ELSE st.blockingField,
      blockingId    |-> IF unresolved THEN refId ELSE st.blockingId,
      targetIds     |-> targets1]

\* a classifier that keeps the first blocker it noted
scanRefField_keepFirst(row, id, refField, st, m) ==
  LET refId == row.cells[refField.index]
      targets1 ==
        IF refId = "" THEN st.targetIds
        ELSE IF refId \in st.targetIds THEN st.targetIds \cup {id}
        ELSE IF id \in st.targetIds THEN st.targetIds \cup {refId}
        ELSE st.targetIds
      unresolved == refId # "" /\ ~Has(m, refId)
      first == unresolved /\ st.blockingField = Undefined
  IN [isUploadable  |-> st.isUploadable /\ ~unresolved,
      blockingField |-> IF first THEN refField.field ELSE st.blockingField,
      blockingId    |-> IF first THEN refId ELSE st.blockingId,
      targetIds     |-> targets1]

\* a classifier that takes the child of any referenced row as a target
scanRefField_addChild(row, id, refField, st, m) ==
  LET refId == row.cells[refField.index]
      targets1 ==
        IF refId = "" THEN st.targetIds ELSE st.targetIds \cup {id}
      unresolved == refId # "" /\ ~Has(m, refId)
  IN [isUploadable  |-> st.isUploadable /\ ~unresolved,
      blockingField |-> IF unresolved THEN refField.field
                        ELSE st.blockingField,
      blockingId    |-> IF unresolved THEN refId ELSE st.blockingId,
      targetIds     |-> targets1]

\* one reference column of one row: propagate the targets, note the blocker
scanRefField(row, id, refField, st, m) ==
  LET refId == row.cells[refField.index]
      targets1 ==
        IF refId = "" THEN st.targetIds
        ELSE IF refId \in st.targetIds THEN st.targetIds \cup {id}
        ELSE IF id \in st.targetIds THEN st.targetIds \cup {refId}
        ELSE st.targetIds
      unresolved == refId # "" /\ ~Has(m, refId)
  IN [isUploadable  |-> st.isUploadable /\ ~unresolved,
      blockingField |-> IF unresolved THEN refField.field
                        ELSE st.blockingField,
      blockingId    |-> IF unresolved THEN refId ELSE st.blockingId,
      targetIds     |-> targets1]

RECURSIVE scanRefFields(_, _, _, _, _)
\* the loop over the reference columns of one row
scanRefFields(row, id, refFields, st, m) ==
  IF refFields = <<>> THEN st
  ELSE scanRefFields(row, id, Tail(refFields),
                     scanRefField(row, id, Head(refFields), st, m), m)

\* a classifier that takes every row as uploadable whatever the targets are
classifyRow_ignoreTargets(row, id, refFields, targets, m) ==
  scanRefFields(row, id, refFields,
                [isUploadable  |-> TRUE,
                 blockingField |-> Undefined,
                 blockingId    |-> Undefined,
                 targetIds     |-> targets], m)

\* the body of the loop over rows, for one row not yet mapped
classifyRow(row, id, refFields, targets, m) ==
  scanRefFields(row, id, refFields,
                [isUploadable  |-> targets = {} \/ id \in targets,
                 blockingField |-> Undefined,
                 blockingId    |-> Undefined,
                 targetIds     |-> targets], m)

\* a classifier that leaves an uploadable row among the waiting rows as well
pushRow_keepWaiting(acc, row, id, c, mapped) ==
  LET waiting == [row |-> row, id |-> id,
                  blockingField |-> c.blockingField,
                  blockingId |-> c.blockingId]
  IN IF mapped
     THEN [acc EXCEPT !.notloadables = Append(@, row)]
     ELSE IF c.isUploadable
     THEN [acc EXCEPT !.uploadables = Append(@, row),
                      !.waitings = Append(@, waiting),
                      !.targetIds = c.targetIds]
     ELSE [acc EXCEPT !.waitings = Append(@, waiting),
                      !.targetIds = c.targetIds]

\* a classifier that does not skip the rows already mapped
pushRow_ignoreMapped(acc, row, id, c, mapped) ==
  IF c.isUploadable
  THEN [acc EXCEPT !.uploadables = Append(@, row),
                   !.targetIds = c.targetIds]
  ELSE [acc EXCEPT !.waitings = Append(@, [row |-> row, id |-> id,
                                           blockingField |-> c.blockingField,
                                           blockingId |-> c.blockingId]),
                   !.targetIds = c.targetIds]

\* where the loop over the rows puts one row: mapped is idMap.has(id), c the
\* outcome of the loop over the row's reference columns
pushRow(acc, row, id, c, mapped) ==
  IF mapped
  THEN [acc EXCEPT !.notloadables = Append(@, row)]
  ELSE IF c.isUploadable
  THEN [acc EXCEPT !.uploadables = Append(@, row),
                   !.targetIds = c.targetIds]
  ELSE [acc EXCEPT !.waitings = Append(@, [row |-> row, id |-> id,
                                           blockingField |-> c.blockingField,
                                           blockingId |-> c.blockingId]),
                   !.targetIds = c.targetIds]

RECURSIVE filterRows(_, _, _, _, _)
\* the loop over the rows; acc carries the three lists and the target set
filterRows(rows, idIndex, refFields, m, acc) ==
  IF rows = <<>> THEN acc
  ELSE LET row == Head(rows)
           id == row.cells[idIndex]
           c == classifyRow(row, id, refFields, acc.targetIds, m)
       IN filterRows(Tail(rows), idIndex, refFields, m,
                     pushRow(acc, row, id, c, Has(m, id)))

\* filterUploadableRecords: uploadables, waitings, notloadables and the
\* target set as the call leaves it
filterUploadableRecords(dataset, targets, m) ==
  filterRows(dataset.rows,
             idIndexOf(dataset.object, dataset.headers),
             refFieldsOf(dataset.object, dataset.headers), m,
             [uploadables |-> <<>>, waitings |-> <<>>, notloadables |-> <<>>,
              targetIds |-> targets])

\* ---------------------------------------------------- row -> record
\* the value convertToRecordIdPair writes for cell i, Undefined if none
\* (only id, reference and text columns occur in the input files)
convertCell(object, headers, row, i, m) ==
  LET field == findFieldDescription(object, headers[i])
  IN IF field = NoField \/ field.type = "id" \/ ~field.createable
     THEN Undefined
     ELSE IF field.type = "reference" THEN Get(m, row.cells[i])
     ELSE row.cells[i]

\* convertToRecordIdPair: the id and the record built from the row; the
\* record is given as header index -> value written (Undefined: not set or
\* set to undefined)
convertToRecordIdPair(dataset, row, m) ==
  [id |-> row.cells[idIndexOf(dataset.object, dataset.headers)],
   row |-> row,
   record |-> [i \in 1..Len(row.cells) |->
                 convertCell(dataset.object, dataset.headers, row, i, m)]]


\* ------------------------------------------------------------ upload driver
\* uploadings.set(object, pairs) on a Map kept as a sequence of entries
MapSet(entries, object, pairs) ==
  IF \E i \in 1..Len(entries) : entries[i].object = object
  THEN [i \in 1..Len(entries) |->
          IF entries[i].object = object
          THEN [object |-> object, pairs |-> pairs] ELSE entries[i]]
  ELSE Append(entries, [object |-> object, pairs |-> pairs])

\* waitings.map(({ row }) => row)
waitingRows(waitings) == [i \in 1..Len(waitings) |-> waitings[i].row]

\* the entries pushed to blocked for one dataset
blockedEntries(object, waitings) ==
  [i \in 1..Len(waitings) |->
     [object |-> object, origId |-> waitings[i].id, row |-> waitings[i].row,
      blockingField |-> waitings[i].blockingField,
      blockingId |-> waitings[i].blockingId]]

\* filterUploadableRecords throws when no header is an id field
filterThrows(dataset) == idIndexOf(dataset.object, dataset.headers) = 0

\* convertToRecordIdPair throws when the row has no id: the id cell is empty
convertThrows(dataset, row) ==
  row.cells[idIndexOf(dataset.object, dataset.headers)] = ""

\* the body of the loop over the datasets, for dataset number i; error names
\* the error thrown, if any
classifyDataset(st, i, m) ==
  LET dataset == st.datasets[i]
      f == filterUploadableRecords(dataset, st.targetIds, m)
      uploadRecordIdPairs ==
        [j \in 1..Len(f.uploadables) |->
           convertToRecordIdPair(dataset, f.uploadables[j], m)]
  IN IF filterThrows(dataset)
     THEN [st EXCEPT !.error = "MissingIdColumn"]
     ELSE IF \E j \in 1..Len(f.uploadables) :
               convertThrows(dataset, f.uploadables[j])
     THEN [st EXCEPT !.targetIds = f.targetIds, !.error = "MissingIdColumn"]
     ELSE [datasets |->
             [st.datasets EXCEPT ![i].rows = waitingRows(f.waitings)],
           uploadings |-> IF Len(uploadRecordIdPairs) > 0
                          THEN MapSet(st.uploadings, dataset.object,
                                      uploadRecordIdPairs)
                          ELSE st.uploadings,
           blocked |->
             st.blocked \o blockedEntries(dataset.object, f.waitings),
           targetIds |-> f.targetIds,
           notloadables |-> st.notloadables \o f.notloadables,
           error |-> ""]

RECURSIVE classifyDatasets(_, _, _)
\* the loop over the datasets, from dataset number i on
classifyDatasets(st, i, m) ==
  IF i > Len(st.datasets) \/ st.error # "" THEN st
  ELSE classifyDatasets(classifyDataset(st, i, m), i + 1, m)

\* calcTotalUploadCount
RECURSIVE calcTotalUploadCount(_)
calcTotalUploadCount(ds) ==
  IF ds = <<>> THEN 0
  ELSE Len(Head(ds).rows) + calcTotalUploadCount(Tail(ds))

\* uploadDatasets up to the test of uploadings.size: one classification pass
UploadDatasetsClassify ==
  /\ pc = "classify"
  /\ LET st == classifyDatasets([datasets |-> datasets, uploadings |-> <<>>,
                                 blocked |-> <<>>, targetIds |-> targetIds,
                                 notloadables |-> <<>>, error |-> ""],
                                1, idMap)
     IN /\ datasets' = st.datasets
        /\ uploadings' = st.uploadings
        /\ blocked' = st.blocked
        /\ targetIds' = st.targetIds
        /\ notLoadables' = notLoadables \o st.notloadables
        /\ error' = st.error
        /\ pc' = IF st.error # "" THEN "failed"
                 ELSE IF Len(st.uploadings) > 0 THEN "upload" ELSE "return"
  /\ UNCHANGED <<idMap, uploadStatus, successes, failures, reports, nextId,
                 input, initialIdMap, pass, sent, creates, run,
                 firstRun, policies, targetOrg,
                 initialTargetIds, cancelled,
                 dumpVars, utilVars>>

\* a callback that registers the id of a failed record as well
onRet_mapFailed(object, pair, ret, st) ==
  LET origId == pair.id
      newId == NewId(st.nextId)
  IN IF ret
     THEN [st EXCEPT
             !.idMap = Set(st.idMap, origId, newId),
             !.successes = Append(@, [object |-> object, origId |-> origId,
                                      newId |-> newId, row |-> pair.row,
                                      record |-> pair.record]),
             !.nextId = @ + 1]
     ELSE [st EXCEPT
             !.idMap = Set(st.idMap, origId, newId),
             !.failures = Append(@, [object |-> object, origId |-> origId,
                                     row |-> pair.row,
                                     record |-> pair.record])]

\* a callback that forgets a failed record
onRet_dropFailure(object, pair, ret, st) ==
  LET origId == pair.id
      newId == NewId(st.nextId)
  IN IF ret
     THEN [st EXCEPT
             !.idMap = Set(st.idMap, origId, newId),
             !.successes = Append(@, [object |-> object, origId |-> origId,
                                      newId |-> newId, row |-> pair.row,
                                      record |-> pair.record]),
             !.nextId = @ + 1]
     ELSE st

\* the callback of rets.forEach in uploadRecords, for the result ret of the
\* record of pair; st carries the idMap, the two lists and the id counter of
\* the target org
onRet(object, pair, ret, st) ==
  LET origId == pair.id
      newId == NewId(st.nextId)
  IN IF ret
     THEN [st EXCEPT
             !.idMap = Set(st.idMap, origId, newId),
             !.successes = Append(@, [object |-> object, origId |-> origId,
                                      newId |-> newId, row |-> pair.row,
                                      record |-> pair.record]),
             !.nextId = @ + 1]
     ELSE [st EXCEPT
             !.failures = Append(@, [object |-> object, origId |-> origId,
                                     row |-> pair.row,
                                     record |-> pair.record])]

RECURSIVE applyRets(_, _, _, _, _)
\* rets.forEach of uploadRecords, from result number i on
applyRets(object, pairs, rets, i, st) ==
  IF i > Len(pairs) THEN st
  ELSE applyRets(object, pairs, rets, i + 1,
                 onRet(object, pairs[i], rets[i], st))

\* uploadRecords, one turn of its loop: the create call for the next object
\* of uploadings and the handling of its results
UploadRecordsCreate ==
  /\ pc = "upload"
  /\ uploadings # <<>>
  /\ LET object == Head(uploadings).object
         recordIdPairs == Head(uploadings).pairs
     IN /\ hasSObjectDescription(object)
        /\ \E rets \in [1..Len(recordIdPairs) -> BOOLEAN] :
             LET st == applyRets(object, recordIdPairs, rets, 1,
                                 [idMap |-> idMap, successes |-> successes,
                                  failures |-> failures, nextId |-> nextId])
             IN /\ idMap' = st.idMap
                /\ successes' = st.successes
                /\ failures' = st.failures
                /\ nextId' = st.nextId
        /\ sent' = sent \o [j \in 1..Len(recordIdPairs) |->
                              [object |-> object, pass |-> pass,
                               row |-> recordIdPairs[j].row,
                               record |-> recordIdPairs[j].record,
                               idMap |-> idMap]]
  /\ uploadings' = Tail(uploadings)
  /\ creates' = creates + 1
  /\ UNCHANGED <<datasets, targetIds, uploadStatus, blocked, pc, reports,
                 input, initialIdMap, pass, notLoadables, run,
                 firstRun, policies, targetOrg, error,
                 initialTargetIds, cancelled,
                 dumpVars, utilVars>>

\* a report that counts the successes and failures of this pass only
UploadDatasetsReport_thisPass ==
  /\ pc = "upload"
  /\ uploadings = <<>>
  /\ uploadStatus' = [totalCount |-> uploadStatus.totalCount,
                      successes |-> uploadStatus.successes \o successes,
                      failures |-> uploadStatus.failures \o failures,
                      blocked |-> blocked]
  /\ reports' = Append(reports,
                       [totalCount |-> uploadStatus.totalCount,
                        successCount |-> Len(successes),
                        failureCount |-> Len(failures)])
  /\ successes' = <<>>
  /\ failures' = <<>>
  /\ pc' = "classify"
  /\ pass' = pass + 1
  /\ UNCHANGED <<datasets, targetIds, idMap, uploadings, blocked, nextId,
                 input, initialIdMap, sent, notLoadables, creates, run,
                 firstRun, policies, targetOrg, error,
                 initialTargetIds, cancelled,
                 dumpVars, utilVars>>

\* uploadDatasets after uploadRecords returned: the new status, the progress
\* report and the recursive call
UploadDatasetsReport ==
  /\ pc = "upload"
  /\ uploadings = <<>>
  /\ LET newUploadStatus ==
           [totalCount |-> uploadStatus.totalCount,
            successes |-> uploadStatus.successes \o successes,
            failures |-> uploadStatus.failures \o failures,
            blocked |-> blocked]
     IN /\ uploadStatus' = newUploadStatus
        /\ reports' = Append(reports,
                             [totalCount |-> newUploadStatus.totalCount,
                              successCount |-> Len(newUploadStatus.successes),
                              failureCount |-> Len(newUploadStatus.failures)])
  /\ successes' = <<>>
  /\ failures' = <<>>
  /\ pc' = "classify"
  /\ pass' = pass + 1
  /\ UNCHANGED <<datasets, targetIds, idMap, uploadings, blocked, nextId,
                 input, initialIdMap, sent, notLoadables, creates, run,
                 firstRun, policies, targetOrg, error,
                 initialTargetIds, cancelled,
                 dumpVars, utilVars>>

\* what uploadDatasets returns when the pass produced no uploading: the
\* status it was called with; the blocked list of the pass is not used
returnedStatus(status, blockedNow) == status

\* uploadDatasets when the pass produced no uploading: return uploadStatus
UploadDatasetsReturn ==
  /\ pc = "return"
  /\ uploadStatus' = returnedStatus(uploadStatus, blocked)
  /\ pc' = "done"
  /\ UNCHANGED <<datasets, targetIds, idMap, uploadings, blocked, successes,
                 failures, reports, nextId, input, initialIdMap, pass, sent,
                 notLoadables, creates, run, firstRun, policies,
          targetOrg, error,
                 initialTargetIds, cancelled,
                 dumpVars, utilVars>>

\* -------------------------------------------------- mapping-policy resolver
\* a Map kept as a sequence of entries in insertion order: set, has, get
EntrySet(entries, key, value) ==
  IF \E i \in 1..Len(entries) : entries[i].key = key
  THEN [i \in 1..Len(entries) |->
          IF entries[i].key = key
          THEN [key |-> key, value |-> value] ELSE entries[i]]
  ELSE Append(entries, [key |-> key, value |-> value])

EntryHas(entries, key) == \E i \in 1..Len(entries) : entries[i].key = key

EntryGet(entries, key) ==
  entries[CHOOSE i \in 1..Len(entries) : entries[i].key = key].value

\* keyIndexMap.get(keyField): the last column whose header is keyField, 0 if
\* there is none
keyIndexOf(headers, keyField) ==
  LET hits == {i \in 1..Len(headers) : headers[i] = keyField}
  IN IF hits = {} THEN 0 ELSE CHOOSE i \in hits : \A j \in hits : j <= i

\* idIndex of getExistingIdMap: the last column that is no key field and whose
\* field has type id, 0 if there is none
mappingIdIndexOf(object, headers, keyFields) ==
  LET ids == {i \in 1..Len(headers) :
                /\ headers[i] \notin SeqToSet(keyFields)
                /\ findFieldDescription(object, headers[i]).type = "id"}
  IN IF ids = {} THEN 0 ELSE CHOOSE i \in ids : \A j \in ids : j <= i

RECURSIVE trimEnd(_)
\* what trim() takes off the end of the joined values: values hold no white
\* space, so the tabs that follow the last non-empty value
trimEnd(tpl) ==
  IF tpl = <<>> THEN <<>>
  ELSE IF tpl[Len(tpl)] = "" THEN trimEnd(SubSeq(tpl, 1, Len(tpl) - 1))
  ELSE tpl

RECURSIVE trimStart(_)
\* what trim() takes off the start: the tabs before the first non-empty value
trimStart(tpl) ==
  IF tpl = <<>> THEN <<>>
  ELSE IF Head(tpl) = "" THEN trimStart(Tail(tpl))
  ELSE tpl

\* tpl.join('\t').trim(), kept as the sequence of the values between the tabs
\* that are left
joinTrim(tpl) == trimStart(trimEnd(tpl))

\* the key of a source row: its cells in the key columns ('' for a key field
\* that is no column)
rowKeyValue(headers, cells, keyFields) ==
  joinTrim([j \in 1..Len(keyFields) |->
              IF keyIndexOf(headers, keyFields[j]) = 0 THEN ""
              ELSE cells[keyIndexOf(headers, keyFields[j])]])

\* the key of a target record: its values of the key fields ('' for null)
recordKeyValue(record, keyFields) ==
  joinTrim([j \in 1..Len(keyFields) |->
              IF keyFields[j] \in DOMAIN record THEN record[keyFields[j]]
              ELSE ""])

\* keyMap.set(keyValue, id)
keyMapSet(entries, key, value) == EntrySet(entries, key, value)

RECURSIVE keyMapFrom(_, _, _, _, _)
\* the loop that builds keyMap (key -> source id) from the rows, from row
\* number i on
keyMapFrom(dataset, idIndex, keyFields, i, keyMap) ==
  IF i > Len(dataset.rows) THEN keyMap
  ELSE LET cells == dataset.rows[i].cells
           id == cells[idIndex]
       IN keyMapFrom(dataset, idIndex, keyFields, i + 1,
                     IF id # ""
                     THEN keyMapSet(keyMap,
                                    rowKeyValue(dataset.headers, cells,
                                                keyFields), id)
                     ELSE keyMap)

\* keyFieldConditionValues.get(keyField): the values of the key field in the
\* rows with an id
conditionValues(dataset, idIndex, keyField) ==
  {IF keyIndexOf(dataset.headers, keyField) = 0 THEN ""
   ELSE dataset.rows[i].cells[keyIndexOf(dataset.headers, keyField)] :
     i \in {j \in 1..Len(dataset.rows) : dataset.rows[j].cells[idIndex] # ""}}

\* conn.sobject(object).find(condition, ['Id', ...keyFields]): the target
\* records with every key field among the values asked for
findRecords(targetRecords, dataset, idIndex, keyFields) ==
  SelectSeq(targetRecords,
            LAMBDA record :
              \A j \in 1..Len(keyFields) :
                (IF keyFields[j] \in DOMAIN record THEN record[keyFields[j]]
                 ELSE "") \in conditionValues(dataset, idIndex, keyFields[j]))

RECURSIVE newKeyMapFrom(_, _, _, _)
\* the loop that builds newKeyMap (key -> target id) from the records found
newKeyMapFrom(records, keyFields, i, newKeyMap) ==
  IF i > Len(records) THEN newKeyMap
  ELSE newKeyMapFrom(records, keyFields, i + 1,
                     EntrySet(newKeyMap,
                              recordKeyValue(records[i], keyFields),
                              records[i].Id))

RECURSIVE mapKeys(_, _, _, _)
\* the loop over keyMap.keys(): idMap.set(id, newId) for the keys in both maps
mapKeys(keyMap, newKeyMap, i, m) ==
  IF i > Len(keyMap) THEN m
  ELSE mapKeys(keyMap, newKeyMap, i + 1,
               IF EntryHas(newKeyMap, keyMap[i].key)
               THEN Set(m, keyMap[i].value, EntryGet(newKeyMap, keyMap[i].key))
               ELSE m)

\* the key-field part of getExistingIdMap
keyFieldMapping(dataset, idIndex, keyFields, targetRecords) ==
  IF \A j \in 1..Len(keyFields) : keyIndexOf(dataset.headers, keyFields[j]) = 0
  THEN <<>>
  ELSE LET keyMap == keyMapFrom(dataset, idIndex, keyFields, 1, <<>>)
           records == IF keyMap = <<>> THEN <<>>
                      ELSE findRecords(targetRecords, dataset, idIndex,
                                       keyFields)
           newKeyMap == newKeyMapFrom(records, keyFields, 1, <<>>)
       IN mapKeys(keyMap, newKeyMap, 1, <<>>)

\* the id the defaultMapping resolves to, Undefined if none: the literal id,
\* or the Id of the first row of the query
defaultIdOf(defaultMapping, targetRecords) ==
  IF defaultMapping.kind = "id" THEN defaultMapping.id
  ELSE IF defaultMapping.kind = "query" /\ targetRecords # <<>>
  THEN targetRecords[1].Id
  ELSE Undefined

\* a default mapping that overrides the ids mapped by key fields
defaultSet_override(m, id, defaultId) ==
  IF id # "" THEN Set(m, id, defaultId) ELSE m

\* the body of the loop of the default mapping, for one source id
defaultSet(m, id, defaultId) ==
  IF id # "" /\ ~Has(m, id) THEN Set(m, id, defaultId) ELSE m

RECURSIVE mapDefault(_, _, _, _, _)
\* the loop of the default mapping over the rows, from row number i on
mapDefault(dataset, idIndex, defaultId, i, m) ==
  IF i > Len(dataset.rows) THEN m
  ELSE mapDefault(dataset, idIndex, defaultId, i + 1,
                  defaultSet(m, dataset.rows[i].cells[idIndex], defaultId))

\* getExistingIdMap
getExistingIdMap(dataset, keyFields, defaultMapping, targetRecords) ==
  LET idIndex == mappingIdIndexOf(dataset.object, dataset.headers, keyFields)
      byKey == keyFieldMapping(dataset, idIndex, keyFields, targetRecords)
      defaultId == defaultIdOf(defaultMapping, targetRecords)
  IN IF idIndex = 0 THEN <<>>
     ELSE IF defaultMapping.kind # "none" /\ defaultId # Undefined
     THEN mapDefault(dataset, idIndex, defaultId, 1, byKey)
     ELSE byKey

\* new Map([...idMap, ...ids])
mergeMaps(m1, m2) ==
  [x \in DOMAIN m1 \cup DOMAIN m2 |-> IF x \in DOMAIN m2 THEN m2[x] ELSE m1[x]]

\* datasetMap.get(object): the number of the last dataset of the object, 0 if
\* there is none
datasetIndexOf(ds, object) ==
  LET hits == {i \in 1..Len(ds) : ds[i].object = object}
  IN IF hits = {} THEN 0 ELSE CHOOSE i \in hits : \A j \in hits : j <= i

RECURSIVE getAllExistingIdMapFrom(_, _, _, _, _)
\* getAllExistingIdMap: the maps of the policies merged in policy order
getAllExistingIdMapFrom(ds, mappingPolicies, targetRecords, i, m) ==
  IF i > Len(mappingPolicies) THEN m
  ELSE LET p == mappingPolicies[i]
           d == datasetIndexOf(ds, p.object)
       IN getAllExistingIdMapFrom(ds, mappingPolicies, targetRecords, i + 1,
            mergeMaps(m, getExistingIdMap(ds[d], p.keyFields,
                                          p.defaultMapping,
                                          targetRecords[p.object])))

getAllExistingIdMap(ds, mappingPolicies, targetRecords) ==
  getAllExistingIdMapFrom(ds, mappingPolicies, targetRecords, 1, <<>>)

\* is there a policy whose object has no dataset
hasUnknownMappingObject(ds, mappingPolicies) ==
  \E i \in 1..Len(mappingPolicies) :
    datasetIndexOf(ds, mappingPolicies[i].object) = 0

\* ------------------------------------------------------------------- input
\* the cells a data row of each input file can hold
Cells(object) ==
  LET v == ColumnValues[object]
  IN IF object = "Account"
     THEN {<<id, r>> : id \in v[1], r \in v[2]}
     ELSE {<<id, r1, r2>> : id \in v[1], r1 \in v[2], r2 \in v[3]}

\* the parsed datasets holding the Account rows c1 and the Contact rows c2;
\* k numbers the rows in input order
Parsed(c1, c2) ==
  <<[object |-> "Account", headers |-> InputHeaders["Account"],
     rows |-> [i \in 1..Len(c1) |-> [k |-> i, cells |-> c1[i]]]],
    [object |-> "Contact", headers |-> InputHeaders["Contact"],
     rows |-> [i \in 1..Len(c2) |-> [k |-> Len(c1) + i, cells |-> c2[i]]]]>>

\* the idMap a run starts from: ids resolved to existing target records
InitialIdMaps == UNION {[S -> {ExistingId}] : S \in SUBSET SeedIds}

\* upload: the state in which uploadDatasets is first called
InitWith(targets, idMaps) ==
  /\ \E n1 \in 0..MaxAccounts :
       \E n2 \in 0..MaxContacts :
         \E c1 \in [1..n1 -> Cells("Account")] :
           \E c2 \in [1..n2 -> Cells("Contact")] :
             input = Parsed(c1, c2)
  /\ datasets = input
  /\ targetIds \in targets
  /\ initialTargetIds = targetIds
  /\ cancelled = FALSE
  /\ NoDump
  /\ NoCall
  /\ initialIdMap \in idMaps
  /\ idMap = initialIdMap
  /\ uploadStatus = [totalCount |-> calcTotalUploadCount(input),
                     successes |-> <<>>, failures |-> <<>>, blocked |-> <<>>]
  /\ uploadings = <<>>
  /\ blocked = <<>>
  /\ successes = <<>>
  /\ failures = <<>>
  /\ pc = "classify"
  /\ reports = <<>>
  /\ nextId = 1
  /\ pass = 1
  /\ sent = <<>>
  /\ notLoadables = <<>>
  /\ creates = 0
  /\ run = 1
  /\ firstRun = [idMap |-> <<>>, creates |-> 0, failures |-> 0,
                 waiting |-> 0]
  /\ error = ""
  /\ policies = <<>>
  /\ targetOrg = [Account |-> <<>>, Contact |-> <<>>]

\* a load through loadCSVData: upload starts from an empty target set
Init == InitWith({{}}, InitialIdMaps)

\* the target sets a caller selects: none, a parent id, a child id
TargetChoices == {{}, {"a"}, {"c"}}

\* a load after setUploadingTarget: the caller selected some ids, and the
\* idMap starts empty
InitT == InitWith(TargetChoices, {<<>>})

Next ==
  \/ UploadDatasetsClassify
  \/ UploadRecordsCreate
  \/ UploadDatasetsReport
  \/ UploadDatasetsReturn

Spec == Init /\ [][Next]_vars

\* describeSObjects throws when the target org has no schema of an object
describeThrows(ds) ==
  \E i \in 1..Len(ds) : ~hasSObjectDescription(ds[i].object)

\* upload before it calls uploadDatasets: describeSObjects fetches the
\* schemas, or throws for an object without one; getAllExistingIdMap resolves
\* the mapping policies into the idMap the passes start from, or throws when
\* a policy names an object that has no dataset
UploadGetAllExistingIdMap ==
  /\ pc = "resolve"
  /\ IF describeThrows(datasets)
     THEN /\ pc' = "failed"
          /\ error' = "SchemaNotFound"
          /\ UNCHANGED <<idMap, initialIdMap,
                 initialTargetIds, cancelled,
                 dumpVars, utilVars>>
     ELSE IF hasUnknownMappingObject(datasets, policies)
     THEN /\ pc' = "failed"
          /\ error' = "UnknownMappingObject"
          /\ UNCHANGED <<idMap, initialIdMap,
                 initialTargetIds, cancelled,
                 dumpVars, utilVars>>
     ELSE /\ idMap' = getAllExistingIdMap(datasets, policies,
                                          targetOrg)
          /\ initialIdMap' = idMap'
          /\ error' = ""
          /\ pc' = "classify"
  /\ UNCHANGED <<datasets, targetIds, uploadStatus, uploadings, blocked,
                 successes, failures, reports, nextId, input, pass, sent,
                 notLoadables, creates, run, firstRun, policies,
                 targetOrg,
                 initialTargetIds, cancelled,
                 dumpVars, utilVars>>

\* the headers of the Account file of a load with a mapping policy
PolicyHeaders == <<"Id", "Name", "Website">>

\* the rows of the two files of a load with a mapping policy: an Account row
\* holds an id and the two key values, one of them possibly empty; a Contact
\* row references the Account a
PolicyCells ==
  [Account |-> {<<id, k[1], k[2]>> :
                  id \in {"a", "b"},
                  k \in {<<"x", "">>, <<"", "x">>, <<"x", "x">>}},
   Contact |-> {<<"c", "a", "">>}]

\* the Account records the target org can hold before the run
ExistingAccounts ==
  <<[Id |-> "e1", Name |-> "x", Website |-> ""],
    [Id |-> "e2", Name |-> "x", Website |-> "x"]>>

\* the mapping policies of a load: one policy, for Account or for an object
\* that has no input file
PolicyChoices ==
  {<<[object |-> "Account", keyFields |-> k, defaultMapping |-> d]>> :
      k \in {<<>>, <<"Name", "Website">>},
      d \in {[kind |-> "none", id |-> Undefined],
             [kind |-> "id", id |-> ExistingId],
             [kind |-> "query", id |-> Undefined]}}
    \cup {<<[object |-> "User", keyFields |-> <<"Name">>,
             defaultMapping |-> [kind |-> "none", id |-> Undefined]]>>}

\* loadCSVData with a mapping policy: the state in which upload starts
InitM ==
  /\ \E n1 \in 0..MaxAccounts :
       \E n2 \in 0..MaxContacts :
         \E c1 \in [1..n1 -> PolicyCells["Account"]] :
           \E c2 \in [1..n2 -> PolicyCells["Contact"]] :
             input = [Parsed(c1, c2) EXCEPT ![1].headers = PolicyHeaders]
  /\ datasets = input
  /\ policies \in PolicyChoices
  /\ \E S \in SUBSET (1..Len(ExistingAccounts)) :
       targetOrg =
         [Account |-> SelectSeq(ExistingAccounts,
                                LAMBDA r : \E i \in S :
                                             r = ExistingAccounts[i]),
          Contact |-> <<>>]
  /\ targetIds = {}
  /\ initialTargetIds = {}
  /\ cancelled = FALSE
  /\ NoDump
  /\ NoCall
  /\ initialIdMap = <<>>
  /\ idMap = <<>>
  /\ uploadStatus = [totalCount |-> calcTotalUploadCount(input),
                     successes |-> <<>>, failures |-> <<>>, blocked |-> <<>>]
  /\ uploadings = <<>>
  /\ blocked = <<>>
  /\ successes = <<>>
  /\ failures = <<>>
  /\ pc = "resolve"
  /\ reports = <<>>
  /\ nextId = 1
  /\ pass = 1
  /\ sent = <<>>
  /\ notLoadables = <<>>
  /\ creates = 0
  /\ run = 1
  /\ firstRun = [idMap |-> <<>>, creates |-> 0, failures |-> 0,
                 waiting |-> 0]
  /\ error = ""

NextM ==
  \/ UploadGetAllExistingIdMap
  \/ UploadDatasetsClassify
  \/ UploadRecordsCreate
  \/ UploadDatasetsReport
  \/ UploadDatasetsReturn

\* a load with a mapping policy
SpecM == InitM /\ [][NextM]_vars

\* parseCSVInputs: csv-parse either yields the datasets or reports an error,
\* which rejects loadCSVData
ParseCSVInputs ==
  /\ pc = "parse"
  /\ \/ pc' = "resolve" /\ error' = ""
     \/ pc' = "failed" /\ error' = "CsvParseError"
  /\ UNCHANGED <<datasets, targetIds, idMap, uploadStatus, uploadings, blocked,
                 successes, failures, reports, nextId, input, initialIdMap,
                 pass, sent, notLoadables, creates, run, firstRun, policies,
                 targetOrg,
                 initialTargetIds, cancelled,
                 dumpVars, utilVars>>

\* a create call whose error is caught and the loop over uploadings goes on
UploadRecordsCreateThrows_swallowed ==
  /\ pc = "upload"
  /\ uploadings # <<>>
  /\ sent' = sent \o [j \in 1..Len(Head(uploadings).pairs) |->
                        [object |-> Head(uploadings).object, pass |-> pass,
                         row |-> Head(uploadings).pairs[j].row,
                         record |-> Head(uploadings).pairs[j].record,
                         idMap |-> idMap]]
  /\ creates' = creates + 1
  /\ uploadings' = Tail(uploadings)
  /\ UNCHANGED <<datasets, targetIds, idMap, uploadStatus, blocked,
                 successes, failures, reports, nextId, input, initialIdMap,
                 pass, notLoadables, run, firstRun, policies, targetOrg,
                 pc, error,
                 initialTargetIds, cancelled,
                 dumpVars, utilVars>>

\* uploadRecords when the create call is rejected (a transport-level error):
\* the rejection leaves the loop, uploadRecords, uploadDatasets and upload
UploadRecordsCreateThrows ==
  /\ pc = "upload"
  /\ uploadings # <<>>
  /\ sent' = sent \o [j \in 1..Len(Head(uploadings).pairs) |->
                        [object |-> Head(uploadings).object, pass |-> pass,
                         row |-> Head(uploadings).pairs[j].row,
                         record |-> Head(uploadings).pairs[j].record,
                         idMap |-> idMap]]
  /\ creates' = creates + 1
  /\ pc' = "failed"
  /\ error' = "TransportError"
  /\ UNCHANGED <<datasets, targetIds, idMap, uploadStatus, uploadings, blocked,
                 successes, failures, reports, nextId, input, initialIdMap,
                 pass, notLoadables, run, firstRun, policies, targetOrg,
                 initialTargetIds, cancelled,
                 dumpVars, utilVars>>

\* the second input file of a load that can fail: a Contact file, or a file
\* of an object the target org has no schema of; with an Id column or with
\* none; a row can have an empty id cell
FailingFiles ==
  [object : {"Contact", "Lead"},
   headers : {InputHeaders["Contact"],
              <<"LastName", "AccountId", "ReportsToId">>}]

FailingCells == {<<id, r, "">> : id \in {"c", ""}, r \in {"", "a"}}

\* loadCSVData on inputs that can make it fail: the state before parsing
InitE ==
  /\ \E n1 \in 0..MaxAccounts :
       \E n2 \in 0..MaxContacts :
         \E c1 \in [1..n1 -> Cells("Account")] :
           \E c2 \in [1..n2 -> FailingCells] :
             \E file \in FailingFiles :
               input = [Parsed(c1, c2) EXCEPT ![2].object = file.object,
                                              ![2].headers = file.headers]
  /\ datasets = input
  /\ policies \in {<<>>,
                   <<[object |-> "User", keyFields |-> <<"Name">>,
                      defaultMapping |-> [kind |-> "none",
                                          id |-> Undefined]]>>}
  /\ targetOrg = [Account |-> <<>>, Contact |-> <<>>]
  /\ targetIds = {}
  /\ initialTargetIds = {}
  /\ cancelled = FALSE
  /\ NoDump
  /\ NoCall
  /\ initialIdMap = <<>>
  /\ idMap = <<>>
  /\ uploadStatus = [totalCount |-> calcTotalUploadCount(input),
                     successes |-> <<>>, failures |-> <<>>, blocked |-> <<>>]
  /\ uploadings = <<>>
  /\ blocked = <<>>
  /\ successes = <<>>
  /\ failures = <<>>
  /\ pc = "parse"
  /\ reports = <<>>
  /\ nextId = 1
  /\ pass = 1
  /\ sent = <<>>
  /\ notLoadables = <<>>
  /\ creates = 0
  /\ run = 1
  /\ firstRun = [idMap |-> <<>>, creates |-> 0, failures |-> 0,
                 waiting |-> 0]
  /\ error = ""

NextE ==
  \/ ParseCSVInputs
  \/ UploadGetAllExistingIdMap
  \/ UploadDatasetsClassify
  \/ UploadRecordsCreate
  \/ UploadRecordsCreateThrows
  \/ UploadDatasetsReport
  \/ UploadDatasetsReturn

\* a load in which parsing, the schema lookup, the mapping policies, a row
\* or a create call can fail
SpecE == InitE /\ [][NextE]_vars

\* loadCSVData called a second time on the same inputs, with the idMap the
\* first run returned as the seed: the datasets are parsed again, the status
\* starts empty and the idMap starts as the first run left it
Rerun ==
  /\ pc = "done"
  /\ run = 1
  /\ run' = run + 1
  /\ firstRun' = [idMap |-> idMap, creates |-> creates,
                  failures |-> Len(uploadStatus.failures),
                  waiting |-> calcTotalUploadCount(datasets)]
  /\ datasets' = input
  /\ targetIds' = {}
  /\ initialIdMap' = idMap
  /\ uploadStatus' = [totalCount |-> calcTotalUploadCount(input),
                      successes |-> <<>>, failures |-> <<>>,
                      blocked |-> <<>>]
  /\ uploadings' = <<>>
  /\ blocked' = <<>>
  /\ successes' = <<>>
  /\ failures' = <<>>
  /\ pc' = "classify"
  /\ pass' = 1
  /\ notLoadables' = <<>>
  /\ UNCHANGED <<idMap, reports, nextId, input, sent, creates,
                 policies, targetOrg, error,
                 initialTargetIds, cancelled,
                 dumpVars, utilVars>>

NextR ==
  \/ UploadDatasetsClassify
  \/ UploadRecordsCreate
  \/ UploadDatasetsReport
  \/ UploadDatasetsReturn
  \/ Rerun

\* a first load without mapping policies: the idMap starts empty
InitR == InitWith({{}}, {<<>>})

\* a load followed by a second load seeded with the idMap of the first
SpecR == InitR /\ [][NextR]_vars

SpecT == InitT /\ [][Next]_vars

\* --------------------------------------------------------- namespace utils
\* An identifier is a string; PartLists are the lists of parts, separated by
\* "__" in the string, of the identifiers that have more than one part.
RECURSIVE join(_)
\* parts.join('__')
join(parts) ==
  IF Len(parts) = 1 THEN parts[1]
  ELSE parts[1] \o "__" \o join(Tail(parts))

\* identifier.split('__'), on the names that occur: the names with "__" in
\* them are listed, any other name is its only part
split(identifier) ==
  CASE identifier = "x__c" -> <<"x", "c">>
    [] identifier = "ns__c" -> <<"ns", "c">>
    [] identifier = "ns__x" -> <<"ns", "x">>
    [] identifier = "Ref__c" -> <<"Ref", "c">>
    [] identifier = "ns__x__c" -> <<"ns", "x", "c">>
    [] identifier = "ns__ns__c" -> <<"ns", "ns", "c">>
    [] identifier = "ns__Ref__c" -> <<"ns", "Ref", "c">>
    [] identifier = "ns__ns__x__c" -> <<"ns", "ns", "x", "c">>
    [] OTHER -> <<identifier>>

\* removeNamespace: the identifier without a leading namespace__
removeNamespace(identifier, namespace) ==
  LET parts == split(identifier)
  IN IF Len(parts) >= 2 /\ parts[1] = namespace THEN join(Tail(parts))
     ELSE identifier

\* addNamespace: namespace__ before a custom name of the form name__c,
\* name__r or name__mdt
addNamespace(identifier, namespace) ==
  LET parts == split(identifier)
  IN IF Len(parts) = 2 /\ parts[2] \in {"c", "r", "mdt"}
     THEN namespace \o "__" \o identifier
     ELSE identifier

\* the key at which getMapValue reads the map: the identifier, else (with a
\* namespace) the identifier without the namespace if the map holds it, else
\* the identifier with the namespace; namespace "" stands for no namespace
getMapKey(map, identifier, namespace) ==
  IF Has(map, identifier) \/ namespace = "" THEN identifier
  ELSE IF Has(map, removeNamespace(identifier, namespace))
  THEN removeNamespace(identifier, namespace)
  ELSE addNamespace(identifier, namespace)

\* a lookup that tries the identifier as it is only
getMapValue_exact(map, identifier, namespace) == Get(map, identifier)

\* getMapValue
getMapValue(map, identifier, namespace) ==
  Get(map, getMapKey(map, identifier, namespace))

\* findSObjectDescription of describe.ts: the fields of the description
\* found in the map, <<>> if there is none
findSObjectDescriptionIn(objectName, descriptions, namespace) ==
  LET key == getMapKey(descriptions, objectName, namespace)
  IN IF Has(descriptions, key) THEN descriptions[key] ELSE <<>>

\* findFieldDescription of describe.ts: the field found in the map of the
\* object's fields by name, NoField if there is none
findFieldDescriptionIn(objectName, fieldName, descriptions, namespace) ==
  LET description ==
        findSObjectDescriptionIn(objectName, descriptions, namespace)
      fields == [name \in {description[i].name :
                             i \in 1..Len(description)} |->
                   description[CHOOSE i \in 1..Len(description) :
                                 description[i].name = name]]
      key == getMapKey(fields, fieldName, namespace)
  IN IF Has(fields, key) THEN fields[key] ELSE NoField

\* describeSObjects for one object; answers are what the org answers to the
\* first and to the second describe call: "ok", "NOT_FOUND" or another error
describeSObject(object, namespace, answers) ==
  LET object2 == removeNamespace(object, namespace)
      retry == namespace # "" /\ object # object2
      thrown(err) == IF err = "NOT_FOUND" THEN "SchemaNotFound" ELSE err
  IN IF answers[1] = "ok"
     THEN [calls |-> <<object>>, outcome |-> "described", object |-> object]
     ELSE IF ~retry
     THEN [calls |-> <<object>>, outcome |-> thrown(answers[1]),
           object |-> object]
     ELSE IF answers[2] = "ok"
     THEN [calls |-> <<object, object2>>, outcome |-> "described",
           object |-> object2]
     ELSE [calls |-> <<object, object2>>, outcome |-> thrown(answers[2]),
           object |-> object]

\* getRecordFieldValue: the same fallback on the fields of a record
getRecordFieldValue(record, field, namespace) ==
  getMapValue(record, field, namespace)

\* includesInNamespace: the same fallback on the elements of an array
includesInNamespace(arr, identifier, namespace) ==
  \/ identifier \in SeqToSet(arr)
  \/ /\ namespace # ""
     /\ \/ removeNamespace(identifier, namespace) \in SeqToSet(arr)
        \/ addNamespace(identifier, namespace) \in SeqToSet(arr)

\* -------------------------------------------------------------------- dump
\* a value that a JavaScript test takes as true
Truthy(v) == v \notin {"", Undefined}

\* record[field]
FieldValue(record, field) ==
  IF field \in DOMAIN record THEN record[field] ELSE Undefined

\* the ids of a list of records
IdsOf(records) == {records[i].Id : i \in 1..Len(records)}

\* getTargetFieldDefinitions: the described fields the query selects (an
\* absent fields or ignoreFields is the empty list)
getTargetFieldDefinitions(query) ==
  LET fields == findSObjectDescription(query.object)
      inFields(f) == f.name \in SeqToSet(query.fields)
      notIgnored(f) == f.name \notin SeqToSet(query.ignoreFields)
  IN IF query.fields # <<>> THEN SelectSeq(fields, inFields)
     ELSE IF query.ignoreFields # <<>> THEN SelectSeq(fields, notIgnored)
     ELSE fields

\* getTargetFields
getTargetFields(query) ==
  LET fieldDefs == getTargetFieldDefinitions(query)
  IN [i \in 1..Len(fieldDefs) |-> fieldDefs[i].name]

\* the name a fetched record carries a selected field under: with a default
\* namespace the records are fetched with no default-namespaced field name
fetchedName(field) ==
  IF options.defaultNamespace = "" THEN field
  ELSE removeNamespace(field, options.defaultNamespace)

\* executeQuery: the records of the object that the WHERE clause holds of,
\* in the order of the org, each with the selected fields
executeQuery(object, fields, Where(_)) ==
  LET hits == SelectSeq(targetOrg[object], Where)
  IN [i \in 1..Len(hits) |->
        [name \in {fetchedName(f) : f \in SeqToSet(fields)} |->
           FieldValue(hits[i], CHOOSE f \in SeqToSet(fields) :
                                 fetchedName(f) = name)]]

\* queryRecords: the condition of a seed query selects the ids query.selects
queryRecords(query) ==
  LET condition(r) == r.Id \in query.selects
  IN executeQuery(query.object, getTargetFields(query), condition)

\* the orders in which the seed queries of qs, started together under
\* Promise.all, can complete: the seed queries in any order
CompletionOrders(qs) ==
  LET seeds == {i \in 1..Len(qs) : qs[i].target = "query"}
      n == Cardinality(seeds)
  IN {[i \in 1..n |-> qs[f[i]]] :
        f \in {g \in [1..n -> seeds] :
                 \A i, j \in 1..n : g[i] = g[j] => i = j}}

RECURSIVE queryPrimaryRecords(_, _, _)
\* queryPrimaryRecords: the seed queries fill the two maps; qs lists them
\* in the order they complete, and each sets the entries of its object
queryPrimaryRecords(qs, i, st) ==
  IF i > Len(qs) THEN st
  ELSE IF qs[i].target # "query" THEN queryPrimaryRecords(qs, i + 1, st)
  ELSE LET records == queryRecords(qs[i])
       IN queryPrimaryRecords(qs, i + 1,
            [fetchedRecordsMap |->
               Set(st.fetchedRecordsMap, qs[i].object, records),
             fetchedIdsMap |->
               Set(st.fetchedIdsMap, qs[i].object, IdsOf(records))])

\* the createable reference fields of objectKey that may point to object
referenceFieldsTo(objectKey, object) ==
  LET fields == findSObjectDescription(objectKey)
  IN {fields[i].name :
        i \in {j \in 1..Len(fields) :
                 /\ fields[j].createable
                 /\ fields[j].type = "reference"
                 /\ includesInNamespace(fields[j].referenceTo, object,
                                        options.defaultNamespace)}}

\* getFetchingIds reading only the fetched records of the object itself
getFetchingIds_sameObject(object, recordsMap, fetchedIds) ==
  UNION {UNION {{getRecordFieldValue(recordsMap[objectKey][i], f,
                                     options.defaultNamespace) :
                   f \in {g \in referenceFieldsTo(objectKey, object) :
                            LET refId ==
                                  getRecordFieldValue(
                                    recordsMap[objectKey][i], g,
                                    options.defaultNamespace)
                            IN Truthy(refId) /\ refId \notin fetchedIds}} :
                  i \in 1..Len(recordsMap[objectKey])} :
           objectKey \in {o \in DOMAIN recordsMap :
                            hasSObjectDescription(o) /\ o = object}}

\* getFetchingIds: the ids that fetched records refer to through a field
\* pointing to object, and that are not fetched for object
getFetchingIds(object, recordsMap, fetchedIds) ==
  UNION {UNION {{getRecordFieldValue(recordsMap[objectKey][i], f,
                                     options.defaultNamespace) :
                   f \in {g \in referenceFieldsTo(objectKey, object) :
                            LET refId ==
                                  getRecordFieldValue(
                                    recordsMap[objectKey][i], g,
                                    options.defaultNamespace)
                            IN Truthy(refId) /\ refId \notin fetchedIds}} :
                  i \in 1..Len(recordsMap[objectKey])} :
           objectKey \in {o \in DOMAIN recordsMap :
                            hasSObjectDescription(o)}}

\* fetchDependentRecords
fetchDependentRecords(query, recordsMap, fetchedIds) ==
  LET fetchingIds == getFetchingIds(query.object, recordsMap, fetchedIds)
      idIn(r) == r.Id \in fetchingIds
  IN IF fetchingIds = {} THEN <<>>
     ELSE executeQuery(query.object, getTargetFields(query), idIn)

\* map.get(key) ?? empty
GetOr(m, key, empty) == IF key \in DOMAIN m THEN m[key] ELSE empty

RECURSIVE fetchAllDependentRecords(_, _, _)
\* fetchAllDependentRecords: the loop over the queries, from query i on; st
\* carries the two fetched maps and the new newlyFetchedIdsMap
fetchAllDependentRecords(qs, i, st) ==
  IF i > Len(qs) THEN st
  ELSE IF qs[i].target # "related"
  THEN fetchAllDependentRecords(qs, i + 1, st)
  ELSE LET object == qs[i].object
           fetchedRecords == GetOr(st.fetchedRecordsMap, object, <<>>)
           fetchedIds == GetOr(st.fetchedIdsMap, object, {})
           records == fetchDependentRecords(qs[i], st.fetchedRecordsMap,
                                            fetchedIds)
       IN fetchAllDependentRecords(qs, i + 1,
            [fetchedRecordsMap |->
               Set(st.fetchedRecordsMap, object, fetchedRecords \o records),
             fetchedIdsMap |->
               Set(st.fetchedIdsMap, object,
                   fetchedIds \cup IdsOf(records)),
             newlyFetchedIdsMap |->
               Set(st.newlyFetchedIdsMap, object, IdsOf(records))])

\* getParentRelationsMap: reference field of object -> the newly fetched ids
\* of the objects it may point to
getParentRelationsMap(object, newlyMap) ==
  LET fields == findSObjectDescription(object)
      refIdsOf(field) ==
        UNION {GetOr(newlyMap,
                     getMapKey(newlyMap, field.referenceTo[j],
                               options.defaultNamespace), {}) :
                 j \in 1..Len(field.referenceTo)}
      refs == {i \in 1..Len(fields) :
                 /\ fields[i].createable
                 /\ fields[i].type = "reference"
                 /\ refIdsOf(fields[i]) # {}}
  IN [name \in {fields[i].name : i \in refs} |->
        refIdsOf(fields[CHOOSE i \in refs : fields[i].name = name])]

\* fetchRelatedRecords
fetchRelatedRecords(query, newlyMap) ==
  LET parentRelationsMap == getParentRelationsMap(query.object, newlyMap)
      conditions(r) ==
        \E refField \in DOMAIN parentRelationsMap :
           FieldValue(r, refField) \in parentRelationsMap[refField]
  IN IF DOMAIN parentRelationsMap = {} THEN <<>>
     ELSE executeQuery(query.object, getTargetFields(query), conditions)

\* a loop body that adds a related record already fetched once more
addRelated_again(acc, record) ==
  [fetchedRecords |-> Append(acc.fetchedRecords, record),
   fetchedIds |-> acc.fetchedIds \cup {record.Id},
   newlyFetchedIds |-> acc.newlyFetchedIds \cup {record.Id}]

\* the body of the loop over the related records: a record not yet fetched
\* is added to the list and to the two sets
addRelated(acc, record) ==
  IF record.Id \in acc.fetchedIds THEN acc
  ELSE [fetchedRecords |-> Append(acc.fetchedRecords, record),
        fetchedIds |-> acc.fetchedIds \cup {record.Id},
        newlyFetchedIds |-> acc.newlyFetchedIds \cup {record.Id}]

RECURSIVE addAllRelated(_, _)
addAllRelated(acc, records) ==
  IF records = <<>> THEN acc
  ELSE addAllRelated(addRelated(acc, Head(records)), Tail(records))

RECURSIVE fetchAllRelatedRecords(_, _, _, _)
\* fetchAllRelatedRecords: the loop over the queries, from query i on.  When
\* same, newlyFetchedIdsMap and fetchedIdsMap are one Map: the set written
\* last (newlyFetchedIds) is what both hold
fetchAllRelatedRecords(qs, i, st, same) ==
  IF i > Len(qs) THEN st
  ELSE IF qs[i].target # "related"
  THEN fetchAllRelatedRecords(qs, i + 1, st, same)
  ELSE LET object == qs[i].object
           acc == addAllRelated(
                    [fetchedRecords |->
                       GetOr(st.fetchedRecordsMap, object, <<>>),
                     fetchedIds |-> GetOr(st.fetchedIdsMap, object, {}),
                     newlyFetchedIds |->
                       GetOr(st.newlyFetchedIdsMap, object, {})],
                    fetchRelatedRecords(qs[i], st.newlyFetchedIdsMap))
           newly == Set(IF same THEN Set(st.fetchedIdsMap, object,
                                         acc.fetchedIds)
                        ELSE st.newlyFetchedIdsMap,
                        object, acc.newlyFetchedIds)
       IN fetchAllRelatedRecords(qs, i + 1,
            [fetchedRecordsMap |->
               Set(st.fetchedRecordsMap, object, acc.fetchedRecords),
             fetchedIdsMap |->
               IF same THEN newly
               ELSE Set(st.fetchedIdsMap, object, acc.fetchedIds),
             newlyFetchedIdsMap |-> newly],
            same)

RECURSIVE SumOver(_, _)
SumOver(f, S) ==
  IF S = {} THEN 0
  ELSE LET x == CHOOSE y \in S : TRUE IN f[x] + SumOver(f, S \ {x})

\* a count of the objects fetched instead of the ids
calcFetchedCount_objects(idsMap) ==
  [fetchedCount |-> Cardinality(DOMAIN idsMap),
   fetchedCountPerObject |->
     [object \in DOMAIN idsMap |-> Cardinality(idsMap[object])]]

\* calcFetchedCount: the total and the count per object
calcFetchedCount(idsMap) ==
  LET perObject == [object \in DOMAIN idsMap |->
                      Cardinality(idsMap[object])]
  IN [fetchedCount |-> SumOver(perObject, DOMAIN perObject),
      fetchedCountPerObject |-> perObject]

RECURSIVE reverseIdMap(_, _)
\* new Map(entries.map(([origId, newId]) => [newId, origId])): a later entry
\* with the same newId replaces the earlier one
reverseIdMap(entries, acc) ==
  IF entries = <<>> THEN acc
  ELSE reverseIdMap(Tail(entries),
                    Set(acc, Head(entries)[2], Head(entries)[1]))

\* a rewriting that looks the value up in the idMap as it was given
rewriteField_forward(rec, field, origIdMap) ==
  LET value == FieldValue(rec, field)
      forward == [e \in DOMAIN origIdMap |-> e]
  IN Set(rec, field, IF Has(forward, value) THEN forward[value] ELSE value)

\* one step of the reduce over the id fields:
\* {...rec, [field]: origIdMap.get(rec[field]) ?? rec[field]}
rewriteField(rec, field, origIdMap) ==
  LET value == FieldValue(rec, field)
  IN Set(rec, field, IF Has(origIdMap, value) THEN origIdMap[value]
                     ELSE value)

RECURSIVE rewriteIds(_, _, _)
rewriteIds(rec, idFields, origIdMap) ==
  IF idFields = <<>> THEN rec
  ELSE rewriteIds(rewriteField(rec, Head(idFields), origIdMap),
                  Tail(idFields), origIdMap)

\* stringifyCSV: the header line and, per record, the cell of each column
stringifyCSV(records, columns) ==
  [header |-> [c \in 1..Len(columns) |-> columns[c].header],
   rows |-> [i \in 1..Len(records) |->
               [c \in 1..Len(columns) |->
                  LET value == FieldValue(records[i], columns[c].key)
                  IN IF value = Undefined THEN "" ELSE value]]]

\* a dump that gives a CSV for the seed queries only
dumpRecordsAsCSV_seedsOnly(qs, recordsMap, opts) ==
  LET seeds == SelectSeq(qs, LAMBDA q : q.target = "query")
  IN [q \in 1..Len(seeds) |->
        stringifyCSV(GetOr(recordsMap, seeds[q].object, <<>>),
                     [c \in 1..Len(getTargetFields(seeds[q])) |->
                        [key |-> fetchedName(getTargetFields(seeds[q])[c]),
                         header |-> getTargetFields(seeds[q])[c]]])]

\* dumpRecordsAsCSV: one CSV per query, in the order of the queries
dumpRecordsAsCSV(qs, recordsMap, opts) ==
  [q \in 1..Len(qs) |->
     LET fieldDefs == getTargetFieldDefinitions(qs[q])
         columns == [c \in 1..Len(fieldDefs) |->
                       [key |-> IF opts.defaultNamespace # ""
                                THEN removeNamespace(fieldDefs[c].name,
                                                     opts.defaultNamespace)
                                ELSE fieldDefs[c].name,
                        header |-> fieldDefs[c].name]]
         records == GetOr(recordsMap, qs[q].object, <<>>)
         isIdField(f) == f.type = "id" \/ f.type = "reference"
         idDefs == SelectSeq(fieldDefs, isIdField)
         idFields == [c \in 1..Len(idDefs) |-> idDefs[c].name]
         origIdMap == reverseIdMap(opts.idMap, <<>>)
     IN stringifyCSV(IF opts.hasIdMap
                     THEN [i \in 1..Len(records) |->
                             rewriteIds(records[i], idFields, origIdMap)]
                     ELSE records,
                     columns)]

\* no load is under way
NoLoad ==
  /\ datasets = <<>>
  /\ input = <<>>
  /\ targetIds = {}
  /\ initialTargetIds = {}
  /\ idMap = <<>>
  /\ initialIdMap = <<>>
  /\ uploadStatus = [totalCount |-> 0, successes |-> <<>>,
                     failures |-> <<>>, blocked |-> <<>>]
  /\ uploadings = <<>>
  /\ blocked = <<>>
  /\ successes = <<>>
  /\ failures = <<>>
  /\ reports = <<>>
  /\ nextId = 1
  /\ pass = 0
  /\ sent = <<>>
  /\ notLoadables = <<>>
  /\ creates = 0
  /\ run = 1
  /\ firstRun = [idMap |-> <<>>, creates |-> 0, failures |-> 0,
                 waiting |-> 0]
  /\ policies = <<>>
  /\ error = ""
  /\ cancelled = FALSE

loadVars == <<datasets, input, targetIds, initialTargetIds, idMap,
              initialIdMap, uploadStatus, uploadings, blocked, successes,
              failures, nextId, sent, notLoadables, creates, run, firstRun,
              policies, cancelled>>

\* the report a dump issues after each phase
dumpProgress(idsMap) == calcFetchedCount(idsMap)

\* dumpAsCSVData up to the loop: the objects are described, the seed queries
\* run, and the first progress is reported
DumpQueryPrimaryRecords ==
  /\ pc = "query"
  /\ IF describeThrows(queries)
     THEN /\ pc' = "failed"
          /\ error' = "SchemaNotFound"
          /\ UNCHANGED <<fetchedRecordsMap, fetchedIdsMap, newlyFetchedIdsMap,
                         sameMap, fetchedCount, reports>>
     ELSE \E order \in CompletionOrders(queries) :
          LET st == queryPrimaryRecords(order, 1,
                      [fetchedRecordsMap |-> <<>>, fetchedIdsMap |-> <<>>])
              count == calcFetchedCount(st.fetchedIdsMap).fetchedCount
          IN /\ fetchedRecordsMap' = st.fetchedRecordsMap
             /\ fetchedIdsMap' = st.fetchedIdsMap
             /\ newlyFetchedIdsMap' = st.fetchedIdsMap
             /\ sameMap' = TRUE
             /\ fetchedCount' = count
             /\ reports' = Append(reports, dumpProgress(st.fetchedIdsMap))
             /\ pc' = IF prevCount < count THEN "related" ELSE "output"
             /\ error' = error
  /\ UNCHANGED <<loadVars, utilVars, targetOrg, pass, queries, options,
                 prevCount, csvs>>

\* the first half of an iteration of the loop: fetchAllRelatedRecords
DumpFetchAllRelatedRecords ==
  /\ pc = "related"
  /\ prevCount' = fetchedCount
  /\ pass' = pass + 1
  /\ LET st == fetchAllRelatedRecords(queries, 1,
                 [fetchedRecordsMap |-> fetchedRecordsMap,
                  fetchedIdsMap |-> fetchedIdsMap,
                  newlyFetchedIdsMap |-> newlyFetchedIdsMap], sameMap)
     IN /\ fetchedRecordsMap' = st.fetchedRecordsMap
        /\ fetchedIdsMap' = st.fetchedIdsMap
        /\ newlyFetchedIdsMap' = st.newlyFetchedIdsMap
        /\ fetchedCount' = calcFetchedCount(st.fetchedIdsMap).fetchedCount
        /\ reports' = Append(reports, dumpProgress(st.fetchedIdsMap))
  /\ pc' = "dependent"
  /\ UNCHANGED <<loadVars, utilVars, targetOrg, queries, options, sameMap,
                 csvs, error>>

\* the second half: fetchAllDependentRecords, whose result is the next
\* newlyFetchedIdsMap, and the test of the loop
DumpFetchAllDependentRecords ==
  /\ pc = "dependent"
  /\ LET st == fetchAllDependentRecords(queries, 1,
                 [fetchedRecordsMap |-> fetchedRecordsMap,
                  fetchedIdsMap |-> fetchedIdsMap,
                  newlyFetchedIdsMap |-> <<>>])
         count == calcFetchedCount(st.fetchedIdsMap).fetchedCount
     IN /\ fetchedRecordsMap' = st.fetchedRecordsMap
        /\ fetchedIdsMap' = st.fetchedIdsMap
        /\ newlyFetchedIdsMap' = st.newlyFetchedIdsMap
        /\ sameMap' = FALSE
        /\ fetchedCount' = count
        /\ reports' = Append(reports, dumpProgress(st.fetchedIdsMap))
        /\ pc' = IF prevCount < count THEN "related" ELSE "output"
  /\ UNCHANGED <<loadVars, utilVars, targetOrg, pass, queries, options,
                 prevCount, csvs, error>>

\* after the loop: dumpRecordsAsCSV
DumpRecordsAsCSV ==
  /\ pc = "output"
  /\ csvs' = dumpRecordsAsCSV(queries, fetchedRecordsMap, options)
  /\ pc' = "dumped"
  /\ UNCHANGED <<loadVars, utilVars, targetOrg, pass, queries, options,
                 fetchedRecordsMap, fetchedIdsMap, newlyFetchedIdsMap,
                 sameMap, prevCount, fetchedCount, reports, error>>

\* the ids of the records of the org that is dumped
AccountId(i) == "A" \o ToString(i)
ContactId(j) == "C" \o ToString(j)
OrgAccountIds == {AccountId(i) : i \in 1..MaxAccounts}
OrgContactIds == {ContactId(j) : j \in 1..MaxContacts}

\* the orgs dumped: MaxAccounts Accounts and MaxContacts Contacts whose
\* reference fields are empty or hold the id of a record of the org; the
\* custom field of a Contact holds what its AccountId holds
DumpOrgs ==
  {[Account |-> [i \in 1..MaxAccounts |->
                   [Id |-> AccountId(i), ParentId |-> p[i],
                    Name |-> "x", Website |-> ""]],
    Contact |-> [j \in 1..MaxContacts |->
                   [Id |-> ContactId(j), AccountId |-> a[j],
                    ReportsToId |-> r[j], ns__Ref__c |-> a[j]]]] :
     <<p, a, r>> \in
       [1..MaxAccounts -> {""} \cup OrgAccountIds]
         \X [1..MaxContacts -> {""} \cup OrgAccountIds]
         \X [1..MaxContacts -> {""} \cup OrgContactIds]}

\* a DumpQuery
SeedQuery(object, selects) ==
  [object |-> object, target |-> "query", selects |-> selects,
   fields |-> <<>>, ignoreFields |-> <<>>]
RelatedQuery(object) ==
  [object |-> object, target |-> "related", selects |-> {},
   fields |-> <<>>, ignoreFields |-> <<>>]

\* the calls of dumpAsCSVData: the queries of the repository's test (a seed
\* query on Account, related queries after it), in both orders of the
\* related queries, with and without an idMap, seed queries alone, and
\* a dump with a default namespace
DumpCalls ==
  {[queries |-> <<SeedQuery("Account", {AccountId(1)}),
                  RelatedQuery("Contact"), RelatedQuery("Account")>>,
    options |-> [hasIdMap |-> FALSE, idMap |-> <<>>,
                 defaultNamespace |-> ""]],
   [queries |-> <<SeedQuery("Account", {AccountId(1)}),
                  RelatedQuery("Account"), RelatedQuery("Contact")>>,
    options |-> [hasIdMap |-> TRUE,
                 idMap |-> << <<"a", AccountId(1)>>,
                              <<"c", ContactId(1)>> >>,
                 defaultNamespace |-> ""]],
   [queries |-> <<SeedQuery("Account", {AccountId(2)})>>,
    options |-> [hasIdMap |-> FALSE, idMap |-> <<>>,
                 defaultNamespace |-> ""]],
   [queries |-> <<SeedQuery("Contact", {ContactId(1)}),
                  RelatedQuery("Account")>>,
    options |-> [hasIdMap |-> TRUE,
                 idMap |-> << <<"a", AccountId(1)>>,
                              <<"b", AccountId(1)>> >>,
                 defaultNamespace |-> ""]],
   [queries |-> <<[SeedQuery("Account", OrgAccountIds)
                     EXCEPT !.ignoreFields = <<"Name", "Website">>],
                  RelatedQuery("Contact")>>,
    options |-> [hasIdMap |-> TRUE,
                 idMap |-> << <<"b", AccountId(2)>> >>,
                 defaultNamespace |-> ""]],
   [queries |-> <<SeedQuery("Account", {}), RelatedQuery("Contact")>>,
    options |-> [hasIdMap |-> FALSE, idMap |-> <<>>,
                 defaultNamespace |-> ""]],
   [queries |-> <<SeedQuery("Contact", OrgContactIds),
                  RelatedQuery("Account")>>,
    options |-> [hasIdMap |-> TRUE,
                 idMap |-> << <<"a", AccountId(1)>> >>,
                 defaultNamespace |-> "ns"]]}

InitD ==
  /\ NoLoad
  /\ NoCall
  /\ targetOrg \in DumpOrgs
  /\ \E call \in DumpCalls : queries = call.queries /\ options = call.options
  /\ fetchedRecordsMap = <<>>
  /\ fetchedIdsMap = <<>>
  /\ newlyFetchedIdsMap = <<>>
  /\ sameMap = FALSE
  /\ prevCount = 0
  /\ fetchedCount = 0
  /\ csvs = <<>>
  /\ pc = "query"

NextD ==
  \/ DumpQueryPrimaryRecords
  \/ DumpFetchAllRelatedRecords
  \/ DumpFetchAllDependentRecords
  \/ DumpRecordsAsCSV

\* a dump through dumpAsCSVData
SpecD == InitD /\ [][NextD]_vars

\* ------------------------------------------------------- utility calls
\* the identifiers looked up, and the maps they are looked up in: a map
\* holds, for each of its keys, a value of its own
LookupKeys == {"x", "x__c", "ns__c", "ns__x", "ns__x__c", "ns__ns__x__c"}
LookupMaps ==
  {[key \in keys |-> "value of " \o key] : keys \in SUBSET LookupKeys}
Namespaces == {"ns"}

GetMapValueCalls ==
  {[fn |-> "getMapValue", map |-> map, identifier |-> identifier,
    namespace |-> namespace] :
     <<map, identifier, namespace>> \in
       LookupMaps \X LookupKeys \X Namespaces}

\* getMapValue is called for an identifier, for the identifier without the
\* namespace and for the identifier with it
CallGetMapValue ==
  /\ pc = "call"
  /\ args.fn = "getMapValue"
  /\ result' =
       [identifier |-> getMapValue(args.map, args.identifier, args.namespace),
        stripped |->
          getMapValue(args.map,
                      removeNamespace(args.identifier, args.namespace),
                      args.namespace),
        added |->
          getMapValue(args.map,
                      addNamespace(args.identifier, args.namespace),
                      args.namespace)]
  /\ pc' = "returned"
  /\ UNCHANGED <<loadVars, dumpVars, targetOrg, pass, reports, error, args>>

\* names as a caller may write them, and their lowercase form
CallerObjectNames == {"Account", "account", "ACCOUNT", "Contact", "User"}
CallerFieldNames == {"Id", "ID", "AccountId", "accountid", "ParentId", "Name"}
toLowerCase ==
  [name \in CallerObjectNames \cup CallerFieldNames |->
     CASE name \in {"Account", "account", "ACCOUNT"} -> "account"
       [] name = "Contact" -> "contact"
       [] name = "User" -> "user"
       [] name \in {"Id", "ID"} -> "id"
       [] name \in {"AccountId", "accountid"} -> "accountid"
       [] name = "ParentId" -> "parentid"
       [] name = "Name" -> "name"]

FindDescriptionCalls ==
  {[fn |-> "findFieldDescription", objectName |-> objectName,
    fieldName |-> fieldName, namespace |-> namespace] :
     <<objectName, fieldName, namespace>> \in
       CallerObjectNames \X CallerFieldNames \X ({""} \cup Namespaces)}

\* the describer of Account and Contact is asked for an object and for one
\* of its fields
CallFindDescription ==
  /\ pc = "call"
  /\ args.fn = "findFieldDescription"
  /\ result' =
       [object |-> findSObjectDescriptionIn(args.objectName, Descriptions,
                                            args.namespace),
        field |-> findFieldDescriptionIn(args.objectName, args.fieldName,
                                         Descriptions, args.namespace)]
  /\ pc' = "returned"
  /\ UNCHANGED <<loadVars, dumpVars, targetOrg, pass, reports, error, args>>

\* what the org answers to a describe call
DescribeAnswers == {"ok", "NOT_FOUND", "REQUEST_LIMIT_EXCEEDED"}

DescribeCalls ==
  {[fn |-> "describeSObjects", object |-> object, namespace |-> namespace,
    answers |-> answers] :
     <<object, namespace, answers>> \in
       {"Account", "x__c", "ns__x__c"} \X ({""} \cup Namespaces)
         \X (DescribeAnswers \X DescribeAnswers)}

\* describeSObjects is called for one object
CallDescribeSObjects ==
  /\ pc = "call"
  /\ args.fn = "describeSObjects"
  /\ result' = describeSObject(args.object, args.namespace, args.answers)
  /\ pc' = "returned"
  /\ UNCHANGED <<loadVars, dumpVars, targetOrg, pass, reports, error, args>>

UtilityCalls == GetMapValueCalls \cup FindDescriptionCalls \cup DescribeCalls

InitU ==
  /\ NoLoad
  /\ NoDump
  /\ targetOrg = [Account |-> <<>>, Contact |-> <<>>]
  /\ args \in UtilityCalls
  /\ result = <<>>
  /\ pc = "call"

NextU ==
  \/ CallGetMapValue
  \/ CallFindDescription
  \/ CallDescribeSObjects

\* calls of the utility functions and of the describer
SpecU == InitU /\ [][NextU]_vars

\* ----------------------------------------------------------------- helpers
TypeOK ==
  /\ pc \in {"parse", "resolve", "classify", "upload", "return", "done",
            "failed", "query", "related", "dependent", "output", "dumped",
            "call", "returned"}
  /\ targetIds \subseteq RefIds
  /\ DOMAIN idMap \subseteq RefIds

\* the input rows, and the numbers k that identify them
InputRows == UNION {SeqToSet(input[d].rows) : d \in 1..Len(input)}
InputKs == {r.k : r \in InputRows}

\* how many entries of the list are about input row k
CountK(list, k) == Cardinality({i \in 1..Len(list) : list[i].row.k = k})
CountRowK(rows, k) == Cardinality({i \in 1..Len(rows) : rows[i].k = k})

\* the rows still pending in the datasets
PendingRows == UNION {SeqToSet(datasets[d].rows) : d \in 1..Len(datasets)}
Pending == calcTotalUploadCount(datasets)

\* the non-empty cells of row in the reference columns that take part
RefCells(object, row) ==
  LET refFields == refFieldsOf(object, InputHeaders[object])
  IN {[field |-> refFields[i].field, id |-> row.cells[refFields[i].index]] :
        i \in {j \in 1..Len(refFields) :
                 row.cells[refFields[j].index] # ""}}

\* the id cell of a row
IdOf(object, row) == row.cells[idIndexOf(object, InputHeaders[object])]

\* the object of the dataset that input row k came in
ObjectOfK(k) ==
  input[CHOOSE d \in 1..Len(input) :
          \E i \in 1..Len(input[d].rows) : input[d].rows[i].k = k].object

\* ------------------------------------------------------------------ claims

\* C1: when the load has ended, every input row is in exactly one of
\* successes, failures, blocked and the already-mapped rows, and in it once.
C1_Partition ==
  pc = "done" =>
    \A k \in InputKs :
      CountK(uploadStatus.successes, k) + CountK(uploadStatus.failures, k)
        + CountK(uploadStatus.blocked, k) + CountRowK(notLoadables, k) = 1

\* C2: the idMap only grows: an entry present before a step is present after
\* it with the same target id, so uploadRecords overwrites no existing key.
C2_MonotoneIdMap ==
  [][\A s \in DOMAIN idMap : Has(idMap', s) /\ idMap'[s] = idMap[s]]_vars

\* C4: if the first pass finds no uploadable row, the load ends without a
\* create call, with no success and no failure, and blocked lists every row
\* whose id is not in the idMap, each with an unresolved reference of its own
\* as blockingField and blockingId.
C4_NothingUploadable ==
  (pc = "done" /\ pass = 1) =>
    /\ creates = 0
    /\ uploadStatus.successes = <<>>
    /\ uploadStatus.failures = <<>>
    /\ \A r \in InputRows :
         ~Has(initialIdMap, IdOf(ObjectOfK(r.k), r)) =>
           \E i \in 1..Len(uploadStatus.blocked) :
             LET b == uploadStatus.blocked[i]
             IN /\ b.row = r
                /\ [field |-> b.blockingField, id |-> b.blockingId]
                     \in RefCells(b.object, r)
                /\ ~Has(idMap, b.blockingId)

\* every success and every failure of the run so far
AllSuccesses == uploadStatus.successes \o successes
AllFailures == uploadStatus.failures \o failures

\* the rows one more classification pass would find uploadable
NextUploadings ==
  classifyDatasets([datasets |-> datasets, uploadings |-> <<>>,
                    blocked |-> <<>>, targetIds |-> targetIds,
                    notloadables |-> <<>>, error |-> ""], 1,
                   idMap).uploadings

\* the measure of what is left to do: pending rows first, then the steps of
\* the pass
Rank ==
  6 * Pending
    + (CASE pc = "classify" -> 2
         [] pc = "upload"   -> 3 + Len(uploadings)
         [] pc = "return"   -> 1
         [] OTHER           -> 0)

\* C3: the upload loop terminates: every step lowers Rank, a productive pass
\* takes at least one row out of the pending rows, the pass that ends the run
\* issues no create call, and there are at most (input rows + 1) passes.
C3_Terminates ==
  [][/\ Rank' < Rank
     /\ (pc = "classify" /\ pc' = "upload") => Pending' < Pending
     /\ pc' = "return" => (uploadings' = <<>> /\ creates' = creates)
     /\ pass' <= uploadStatus.totalCount + 1]_vars

\* C3 witness: a run of as many productive passes as there are input rows
\* has ended in pass (rows + 1).
C3_Witness ==
  /\ pc = "done"
  /\ uploadStatus.totalCount = MaxAccounts + MaxContacts
  /\ pass = uploadStatus.totalCount + 1

\* C5: every record submitted to create, so every record in successes, has in
\* each reference field the idMap image of the row's cell as the idMap is
\* when the record is sent, which exists when the cell is not empty; for an
\* empty cell the field is sent empty.
C5_ReferenceValidity ==
  /\ \A i \in 1..Len(sent) :
       LET e == sent[i]
           refFields == refFieldsOf(e.object, InputHeaders[e.object])
       IN \A j \in 1..Len(refFields) :
            LET cell == e.row.cells[refFields[j].index]
                value == e.record[refFields[j].index]
            IN IF cell = "" THEN value = Undefined
               ELSE Has(e.idMap, cell) /\ value = e.idMap[cell]
  /\ \A i \in 1..Len(AllSuccesses) :
       \E j \in 1..Len(sent) :
         /\ sent[j].row = AllSuccesses[i].row
         /\ sent[j].record = AllSuccesses[i].record

\* C5 witness: a success whose record carries the new id of a row created in
\* an earlier pass.
C5_Witness ==
  \E i \in 1..Len(uploadStatus.successes) :
    LET s == uploadStatus.successes[i]
    IN \E c \in RefCells(s.object, s.row) :
         Has(idMap, c.id) /\ idMap[c.id] # ExistingId

\* C6: when the load has ended, every row listed in blocked has a reference
\* cell whose id is not a key of the final idMap.
C6_BlockedHasUnresolved ==
  pc = "done" =>
    \A i \in 1..Len(uploadStatus.blocked) :
      LET b == uploadStatus.blocked[i]
      IN \E c \in RefCells(b.object, b.row) : ~Has(idMap, c.id)

\* C7: the state in which the driver stops is a fixpoint: one more
\* classification pass over the remaining rows, with the final idMap and the
\* final target set, finds no uploadable row.
C7_Fixpoint == pc = "done" => NextUploadings = <<>>

\* the input rows that hold id in a reference column
Referencing(id) ==
  {r \in InputRows : \E c \in RefCells(ObjectOfK(r.k), r) : c.id = id}

C9_AtMostOnce ==
  /\ \A k \in InputKs :
       /\ CountK(sent, k) <= 1
       /\ CountK(AllSuccesses, k) + CountK(AllFailures, k) = CountK(sent, k)
  /\ \A i \in 1..Len(AllFailures) :
       AllFailures[i].row \notin PendingRows
  /\ (pc = "done" /\ AllFailures # <<>>) => NextUploadings = <<>>

\* C9 witness: the load has ended, a row failed in one pass and another row
\* was created in a later pass.
C9_Witness ==
  /\ pc = "done"
  /\ \E i, j \in 1..Len(sent) :
       /\ sent[i].pass < sent[j].pass
       /\ CountK(uploadStatus.failures, sent[i].row.k) = 1
       /\ CountK(uploadStatus.successes, sent[j].row.k) = 1

\* C10: the blocked list returned is the one the final pass built; each of
\* its entries names a reference column of its row and the cell of that
\* column, and that id is not a key of the final idMap.
C10_BlockedOfFinalPass ==
  pc = "done" =>
    /\ uploadStatus.blocked = blocked
    /\ \A i \in 1..Len(uploadStatus.blocked) :
         LET b == uploadStatus.blocked[i]
         IN /\ [field |-> b.blockingField, id |-> b.blockingId]
                 \in RefCells(b.object, b.row)
            /\ ~Has(idMap, b.blockingId)

\* a classification pass has just ended: the idMap is still the one the rows
\* of blocked were classified with
JustClassified ==
  \/ pc = "return"
  \/ pc = "upload" /\ successes = <<>> /\ failures = <<>>

\* the positions, among the reference columns that take part, of the columns
\* of row whose cell is not empty and not a key of m
UnresolvedColumns(object, row, m) ==
  LET refFields == refFieldsOf(object, InputHeaders[object])
  IN {j \in 1..Len(refFields) :
        /\ row.cells[refFields[j].index] # ""
        /\ ~Has(m, row.cells[refFields[j].index])}

\* is the blocker of entry b the unresolved column number j of its row
BlockerIs(b, j) ==
  LET refField == refFieldsOf(b.object, InputHeaders[b.object])[j]
  IN /\ b.blockingField = refField.field
     /\ b.blockingId = b.row.cells[refField.index]

C12_MappedRowSkipped ==
  \A i \in 1..Len(notLoadables) :
    LET k == notLoadables[i].k
    IN /\ CountK(sent, k) = 0
       /\ CountK(AllSuccesses, k) = 0
       /\ CountK(AllFailures, k) = 0
       /\ pc = "done" => CountK(uploadStatus.blocked, k) = 0

\* what C13 says of the second run: it ends with no success, no failure and
\* nothing blocked, with the idMap of the first run, and issues no create call
SecondRunEmpty ==
  /\ uploadStatus.successes = <<>>
  /\ uploadStatus.failures = <<>>
  /\ uploadStatus.blocked = <<>>
  /\ idMap = firstRun.idMap
  /\ creates = firstRun.creates

SentPos(k) == CHOOSE j \in 1..Len(sent) : sent[j].row.k = k

\* C14: when the load has ended the idMap is the initial idMap extended with
\* one entry origId -> newId per success, newId being the id returned for the
\* record built from that row (the n-th record created got the n-th id handed
\* out); the id of a failed or blocked row is a key only if it was one in the
\* initial idMap.
C14_IdMapIsSeedPlusSuccesses ==
  pc = "done" =>
    LET succ == uploadStatus.successes
    IN /\ \A s \in DOMAIN initialIdMap :
            Has(idMap, s) /\ idMap[s] = initialIdMap[s]
       /\ \A i \in 1..Len(succ) :
            /\ ~Has(initialIdMap, succ[i].origId)
            /\ Has(idMap, succ[i].origId)
            /\ idMap[succ[i].origId] = succ[i].newId
            /\ succ[i].newId = NewId(i)
            /\ succ[i].origId = IdOf(succ[i].object, succ[i].row)
            /\ \A j \in 1..Len(succ) :
                 i < j => SentPos(succ[i].row.k) < SentPos(succ[j].row.k)
       /\ \A s \in DOMAIN idMap :
            \/ Has(initialIdMap, s)
            \/ \E i \in 1..Len(succ) : succ[i].origId = s
       /\ Cardinality(DOMAIN idMap)
            = Cardinality(DOMAIN initialIdMap) + Len(succ)
       /\ \A i \in 1..Len(uploadStatus.failures) :
            Has(idMap, uploadStatus.failures[i].origId)
              => Has(initialIdMap, uploadStatus.failures[i].origId)
       /\ \A i \in 1..Len(uploadStatus.blocked) :
            Has(idMap, uploadStatus.blocked[i].origId)
              => Has(initialIdMap, uploadStatus.blocked[i].origId)

\* the resolver has run for a policy on the Account file
Resolved ==
  /\ pc \notin {"resolve", "failed"}
  /\ Len(policies) = 1
  /\ policies[1].object = "Account"

\* the Account rows of the input, and the cell of a row in a key column
AccountRows == SeqToSet(input[1].rows)
KeyCell(row, keyField) == row.cells[keyIndexOf(input[1].headers, keyField)]

\* do the row and the target record agree on every key field
SameKeys(row, record, keyFields) ==
  \A j \in 1..Len(keyFields) : KeyCell(row, keyFields[j]) = record[keyFields[j]]

\* the records of the target org before the run
ExistingRecords == SeqToSet(targetOrg["Account"])

\* C15: with a key-field policy and no default mapping, a source id is mapped
\* to an existing target id only if that target record agrees with a source
\* row of that id on every key field.
C15_MappedOnlyOnEqualKeys ==
  (Resolved /\ policies[1].keyFields # <<>>
     /\ policies[1].defaultMapping.kind = "none") =>
    \A s \in DOMAIN initialIdMap :
      \E r \in AccountRows :
        \E e \in ExistingRecords :
          /\ r.cells[1] = s
          /\ e.Id = initialIdMap[s]
          /\ SameKeys(r, e, policies[1].keyFields)

\* C16: after the resolver has run a key-field policy, every source row whose
\* key values equal those of an existing target record has an idMap entry
\* that points to such a record.
C16_EveryMatchMapped ==
  (Resolved /\ policies[1].keyFields # <<>>) =>
    \A r \in AccountRows :
      (\E e \in ExistingRecords : SameKeys(r, e, policies[1].keyFields)) =>
        /\ Has(initialIdMap, r.cells[1])
        /\ policies[1].defaultMapping.kind = "none" =>
             \E e \in ExistingRecords :
               /\ e.Id = initialIdMap[r.cells[1]]
               /\ SameKeys(r, e, policies[1].keyFields)

\* the target id the default mapping of the policy resolves to
PolicyDefaultId ==
  defaultIdOf(policies[1].defaultMapping, targetOrg["Account"])

\* what the key fields of the policy alone map
PolicyKeyMapping ==
  keyFieldMapping(input[1], 1, policies[1].keyFields, targetOrg["Account"])

C18_NoCreateBeforeFailure ==
  (pc = "failed" /\ error \in {"SchemaNotFound", "MissingIdColumn",
                               "UnknownMappingObject", "CsvParseError"})
    => creates = 0

\* C19: a create call that raises ends the run with that error: the step
\* of a create call that reports no result leaves the run failed with the
\* transport error, and no step follows it (no create call, no progress
\* report, no status returned).
C19_TransportErrorEndsRun ==
  [][/\ (creates' # creates /\ successes' = successes
           /\ failures' = failures)
          => (pc' = "failed" /\ error' = "TransportError")
     /\ error # "TransportError"]_vars

\* C19 witness: a create call has raised while the batch of another object of
\* the pass was still to be sent, after a report of an earlier pass.
C19_Witness ==
  /\ pc = "failed"
  /\ error = "TransportError"
  /\ Len(uploadings) >= 2
  /\ reports # <<>>


\* the reference edges of the input: the id of a row and the id in one of
\* its reference cells
ReferenceEdges ==
  UNION {UNION {{<<IdOf(input[d].object, input[d].rows[i]), c.id>> :
                   c \in RefCells(input[d].object, input[d].rows[i])} :
                  i \in 1..Len(input[d].rows)} :
           d \in 1..Len(input)}

RECURSIVE ConnectedTo(_)
\* the ids joined to an id of S by a chain of reference edges, walked from
\* parent to child and from child to parent
ConnectedTo(S) ==
  LET near == {e[1] : e \in {f \in ReferenceEdges : f[2] \in S}}
                \cup {e[2] : e \in {f \in ReferenceEdges : f[1] \in S}}
  IN IF near \subseteq S THEN S ELSE ConnectedTo(S \cup near)

\* the ids of the rows classified uploadable so far: those submitted, and
\* those of the current pass that wait for their create call
ClassifiedUploadable ==
  {IdOf(sent[j].object, sent[j].row) : j \in 1..Len(sent)}
    \cup UNION {{uploadings[u].pairs[j].id :
                   j \in 1..Len(uploadings[u].pairs)} :
                  u \in 1..Len(uploadings)}

\* C20: when the caller selected target ids, the id of every row classified
\* uploadable in any pass is joined to a selected id by a chain of reference
\* edges; a row whose id is joined to no selected id is never uploaded.
C20_UploadedAreConnected ==
  initialTargetIds # {} =>
    ClassifiedUploadable \subseteq ConnectedTo(initialTargetIds)

\* a targeted load has ended; it uploaded a row that the caller did not
\* select, and left out a row without references that is joined to no target
C20_Witness ==
  /\ pc = "done"
  /\ initialTargetIds # {}
  /\ \E j \in 1..Len(sent) :
       IdOf(sent[j].object, sent[j].row) \notin initialTargetIds
  /\ \E r \in InputRows :
       /\ RefCells(ObjectOfK(r.k), r) = {}
       /\ IdOf(ObjectOfK(r.k), r) \notin ConnectedTo(initialTargetIds)
       /\ \A j \in 1..Len(sent) : sent[j].row.k # r.k


\* ------------------------------------------------------------ dump claims
\* the objects of the queries, and those of the related queries
QueriedObjects == {queries[q].object : q \in 1..Len(queries)}
RelatedObjects ==
  {queries[q].object : q \in {p \in 1..Len(queries) :
                                queries[p].target = "related"}}

\* the reference fields of an object, as described
ReferenceFields(object) ==
  LET fields == findSObjectDescription(object)
  IN {fields[i] : i \in {j \in 1..Len(fields) :
                           fields[j].type = "reference"}}

\* the value a fetched record holds for a described field
FetchedValue(record, name) ==
  getRecordFieldValue(record, name, options.defaultNamespace)

\* the ids fetched for an object
FetchedIds(object) == IdsOf(GetOr(fetchedRecordsMap, object, <<>>))

\* C21 as stated: when a dump has ended, every reference field of a fetched
\* record that may point to an object of the queries is empty or holds the
\* id of a record fetched for an object it may point to.
C21_DumpClosure ==
  pc = "dumped" =>
    \A object \in DOMAIN fetchedRecordsMap :
      \A i \in 1..Len(fetchedRecordsMap[object]) :
        \A F \in ReferenceFields(object) :
          SeqToSet(F.referenceTo) \cap QueriedObjects # {} =>
            \/ ~Truthy(FetchedValue(fetchedRecordsMap[object][i], F.name))
            \/ \E o \in SeqToSet(F.referenceTo) :
                 FetchedValue(fetchedRecordsMap[object][i], F.name)
                   \in FetchedIds(o)

\* C21 amended: when a dump has ended, every createable reference field of
\* a fetched record that may point to the object of a related query is
\* empty, or holds the id of no record of such an object, or holds the id of
\* a record fetched for that object.
C21_DumpClosureOfRelated ==
  pc = "dumped" =>
    \A object \in DOMAIN fetchedRecordsMap :
      \A i \in 1..Len(fetchedRecordsMap[object]) :
        \A F \in {G \in ReferenceFields(object) : G.createable} :
          \A o \in SeqToSet(F.referenceTo) \cap RelatedObjects :
            LET refId == FetchedValue(fetchedRecordsMap[object][i], F.name)
            IN \/ ~Truthy(refId)
               \/ refId \notin IdsOf(targetOrg[o])
               \/ refId \in FetchedIds(o)

\* a dump has ended that fetched, in its second iteration or later, a
\* record that a fetched record refers to
C21_Witness ==
  /\ pc = "dumped"
  /\ pass >= 2
  /\ \E object \in DOMAIN fetchedRecordsMap :
       \E i \in 1..Len(fetchedRecordsMap[object]) :
         \E F \in ReferenceFields(object) :
           \E o \in SeqToSet(F.referenceTo) \cap RelatedObjects :
             LET refId == FetchedValue(fetchedRecordsMap[object][i], F.name)
             IN /\ Truthy(refId)
                /\ refId \in FetchedIds(o)
                /\ \A q \in 1..Len(queries) : refId \notin queries[q].selects

\* C22: when a dump has ended, every record of the object of a related query
\* that refers, through one of its reference fields, to a fetched record of
\* a queried object is fetched too.
C22_ClosedAlongIncoming ==
  pc = "dumped" =>
    \A object \in RelatedObjects :
      \A i \in 1..Len(targetOrg[object]) :
        (\E F \in ReferenceFields(object) :
           \E o \in SeqToSet(F.referenceTo) \cap QueriedObjects :
             /\ Truthy(FieldValue(targetOrg[object][i], F.name))
             /\ FieldValue(targetOrg[object][i], F.name) \in FetchedIds(o))
          => targetOrg[object][i].Id \in FetchedIds(object)


\* the number of records fetched, over all objects
TotalFetched ==
  LET len == [object \in DOMAIN fetchedRecordsMap |->
                Len(fetchedRecordsMap[object])]
  IN SumOver(len, DOMAIN len)

\* no id occurs twice in the list of the records fetched for an object
NoIdTwice ==
  \A object \in DOMAIN fetchedRecordsMap :
    \A i, j \in 1..Len(fetchedRecordsMap[object]) :
      fetchedRecordsMap[object][i].Id = fetchedRecordsMap[object][j].Id
        => i = j

\* C23: in every step of a dump the number of fetched records does not go
\* down and no id comes to occur twice in an object's list; an iteration
\* starts from the number of records fetched so far, the loop is left at the
\* end of an iteration exactly when the iteration added no record, and when
\* it is left the iterations run are at most the records fetched.
C23_DumpTerminates ==
  [][/\ TotalFetched' >= TotalFetched
     /\ NoIdTwice'
     /\ (pc = "related" => prevCount' = TotalFetched)
     /\ (pc = "dependent" => (pc' = "output" <=> TotalFetched' = prevCount))
     /\ (pc' = "output" => pass' <= TotalFetched')]_vars

\* a dump has ended after three iterations, the last of which added nothing
C23_Witness ==
  /\ pc = "dumped"
  /\ pass >= 3
  /\ TotalFetched >= 3
  /\ prevCount = fetchedCount


\* the source ids that the idMap given to the dump sends to the target id t
SourcesOf(t) ==
  {options.idMap[e][1] :
     e \in {k \in 1..Len(options.idMap) : options.idMap[k][2] = t}}

\* the cell that stringifyCSV writes for a value
CellOf(value) == IF value = Undefined THEN "" ELSE value

\* the CSV of query q holds, row by row, the records fetched for its object:
\* every cell is the record's value or, in an id or reference column, a
\* source id that the idMap sends to it
HoldsFetchedRecords(q) ==
  LET fieldDefs == getTargetFieldDefinitions(queries[q])
      records == GetOr(fetchedRecordsMap, queries[q].object, <<>>)
  IN /\ csvs[q].header = getTargetFields(queries[q])
     /\ Len(csvs[q].rows) = Len(records)
     /\ \A i \in 1..Len(records) :
          /\ Len(csvs[q].rows[i]) = Len(fieldDefs)
          /\ \A c \in 1..Len(fieldDefs) :
               LET value == FetchedValue(records[i], fieldDefs[c].name)
               IN \/ csvs[q].rows[i][c] = CellOf(value)
                  \/ /\ fieldDefs[c].type \in {"id", "reference"}
                     /\ csvs[q].rows[i][c] \in SourcesOf(value)

\* C24: when a dump has ended there is one CSV per query, seed or related,
\* in the order of the queries, and the CSV of a query holds the records
\* fetched for the object of that query.
C24_OneCsvPerQuery ==
  pc = "dumped" =>
    /\ Len(csvs) = Len(queries)
    /\ \A q \in 1..Len(queries) : HoldsFetchedRecords(q)

\* a dump of a seed query and two related queries has ended, and the CSV of
\* a related query has a row
C24_Witness ==
  /\ pc = "dumped"
  /\ Len(csvs) = 3
  /\ \E q \in 1..Len(queries) :
       queries[q].target = "related" /\ Len(csvs[q].rows) >= 1

\* C25: when a dump with an idMap has ended, a cell of an id or reference
\* column whose fetched value is a target id of the idMap holds a source id
\* that the idMap sends to that value (the one source id, when the idMap is
\* injective), and every other cell holds the fetched value.
C25_ReverseIdMap ==
  (pc = "dumped" /\ options.hasIdMap) =>
    \A q \in 1..Len(queries) :
      LET fieldDefs == getTargetFieldDefinitions(queries[q])
          records == GetOr(fetchedRecordsMap, queries[q].object, <<>>)
      IN \A i \in 1..Len(records) :
           \A c \in 1..Len(fieldDefs) :
             LET value == FetchedValue(records[i], fieldDefs[c].name)
             IN IF /\ fieldDefs[c].type \in {"id", "reference"}
                   /\ SourcesOf(value) # {}
                THEN csvs[q].rows[i][c] \in SourcesOf(value)
                ELSE csvs[q].rows[i][c] = CellOf(value)

\* a dump with an idMap has ended; one id cell was written as a source id
\* and another, whose value the idMap does not hold, as it was fetched
C25_Witness ==
  /\ pc = "dumped"
  /\ options.hasIdMap
  /\ \E q \in 1..Len(queries) :
       LET fieldDefs == getTargetFieldDefinitions(queries[q])
           records == GetOr(fetchedRecordsMap, queries[q].object, <<>>)
       IN \E i, j \in 1..Len(records) :
            \E c, d \in 1..Len(fieldDefs) :
              /\ fieldDefs[c].type \in {"id", "reference"}
              /\ fieldDefs[d].type \in {"id", "reference"}
              /\ SourcesOf(FetchedValue(records[i], fieldDefs[c].name)) # {}
              /\ csvs[q].rows[i][c]
                   # FetchedValue(records[i], fieldDefs[c].name)
              /\ Truthy(FetchedValue(records[j], fieldDefs[d].name))
              /\ SourcesOf(FetchedValue(records[j], fieldDefs[d].name)) = {}
              /\ csvs[q].rows[j][d]
                   = FetchedValue(records[j], fieldDefs[d].name)


\* -------------------------------------------------- utility and describer
\* C26 as stated: whenever one of the lookups of k, of k without the
\* namespace and of k with the namespace is defined, the three are equal.
C26_LookupLaw ==
  (pc = "returned" /\ args.fn = "getMapValue") =>
    ((\E f \in DOMAIN result : result[f] # Undefined)
       => (result.identifier = result.stripped
             /\ result.stripped = result.added))


\* the identifier is a custom name (name__c, name__r or name__mdt, the name
\* not being the namespace), with or without the namespace in front
IsCustomName(identifier, namespace) ==
  LET parts == split(removeNamespace(identifier, namespace))
  IN /\ Len(parts) = 2
     /\ parts[2] \in {"c", "r", "mdt"}
     /\ parts[1] # namespace

\* C26 amended: for a custom name k whose name is not N, with or without the
\* namespace N in front, and a map that does not hold both forms of k, the
\* lookups of k, of k without N and of k with N give the same result.
C26_LookupLawOfCustomNames ==
  (/\ pc = "returned"
   /\ args.fn = "getMapValue"
   /\ IsCustomName(args.identifier, args.namespace)
   /\ ~({removeNamespace(args.identifier, args.namespace),
         addNamespace(removeNamespace(args.identifier, args.namespace),
                      args.namespace)} \subseteq DOMAIN args.map))
    => (result.identifier = result.stripped
          /\ result.stripped = result.added)

\* a custom name was looked up in a map that holds its other form only
C26_Witness ==
  /\ pc = "returned"
  /\ args.fn = "getMapValue"
  /\ IsCustomName(args.identifier, args.namespace)
  /\ args.identifier \notin DOMAIN args.map
  /\ result.identifier # Undefined
  /\ result.stripped = result.identifier
  /\ result.added = result.identifier


\* C27: the describer gives the same object description and the same field
\* description for any two object names, and any two field names, that
\* differ in letter case only.
C27_CaseInsensitive ==
  (pc = "returned" /\ args.fn = "findFieldDescription") =>
    \A objectName \in CallerObjectNames :
      \A fieldName \in CallerFieldNames :
        (/\ toLowerCase[objectName] = toLowerCase[args.objectName]
         /\ toLowerCase[fieldName] = toLowerCase[args.fieldName])
          => /\ findSObjectDescriptionIn(objectName, Descriptions,
                                         args.namespace) = result.object
             /\ findFieldDescriptionIn(objectName, fieldName, Descriptions,
                                       args.namespace) = result.field

\* C28: an object is described at most twice; a second call is made only
\* after the first was answered not found and only with a namespace, for
\* the object without the namespace; when both calls are answered not found
\* the build fails with SchemaNotFound for the object asked for; an answer
\* that is another error is the error of the build.
C28_DescribeRetry ==
  (pc = "returned" /\ args.fn = "describeSObjects") =>
    /\ Len(result.calls) <= 2
    /\ Len(result.calls) = 2 =>
         /\ args.answers[1] = "NOT_FOUND"
         /\ args.namespace # ""
         /\ result.calls[2] = removeNamespace(args.object, args.namespace)
    /\ (Len(result.calls) = 2 /\ args.answers = <<"NOT_FOUND", "NOT_FOUND">>)
         => (result.outcome = "SchemaNotFound"
               /\ result.object = args.object)
    /\ \A i \in 1..Len(result.calls) :
         args.answers[i] \notin {"ok", "NOT_FOUND"}
           => result.outcome = args.answers[i]


\* the input rows whose id is not a key of the initial idMap
UnseededRows ==
  {r \in InputRows : ~Has(initialIdMap, IdOf(ObjectOfK(r.k), r))}

\* the unseeded rows that a reference cell of row r names: rows of an
\* object the column refers to that carry the id of the cell
ReferencedRows(r) ==
  {r2 \in UnseededRows :
     \E c \in RefCells(ObjectOfK(r.k), r) :
       /\ c.id = IdOf(ObjectOfK(r2.k), r2)
       /\ ObjectOfK(r2.k) \in
            SeqToSet(findFieldDescription(ObjectOfK(r.k),
                                          c.field).referenceTo)}

\* the rows reached from the rows of S along reference cells
RECURSIVE ReachedFrom(_)
ReachedFrom(S) ==
  LET more == S \cup UNION {ReferencedRows(r) : r \in S}
  IN IF more = S THEN S ELSE ReachedFrom(more)

\* the rows on a reference cycle none of whose ids is seeded
CycleRows == {r \in UnseededRows : r \in ReachedFrom(ReferencedRows(r))}

\* C29: a row on a reference cycle that is not seeded is never sent to
\* create, and is in blocked when the load has ended.
C29_CyclesEndBlocked ==
  \A r \in CycleRows :
    /\ CountK(sent, r.k) = 0
    /\ pc = "done" => CountK(uploadStatus.blocked, r.k) = 1


\* ------------------------------------------------------------ cancellation
\* the caller raises the cancellation signal while a pass runs: the driver
\* is at the point between that pass and the next when it could see it
Cancel ==
  /\ pc = "classify"
  /\ pass > 1
  /\ ~cancelled
  /\ cancelled' = TRUE
  /\ UNCHANGED <<datasets, input, targetIds, initialTargetIds, idMap,
                 initialIdMap, uploadStatus, uploadings, blocked, successes,
                 failures, nextId, sent, notLoadables, creates, run, firstRun,
                 policies, pc, pass, reports, targetOrg, error,
                 dumpVars, utilVars>>

NextC ==
  \/ UploadDatasetsClassify
  \/ UploadRecordsCreate
  \/ UploadDatasetsReport
  \/ UploadDatasetsReturn
  \/ Cancel

\* a load during which the caller may ask to cancel
SpecC == InitR /\ [][NextC]_vars

\* C30: once the cancellation signal is raised, the run issues no further
\* create call and the status it holds at the point between passes is the
\* status it returns.
C30_CancelStops ==
  [][cancelled => (creates' = creates /\ uploadStatus' = uploadStatus)]_vars


\* the pass in which the input row k was sent to create
SentPassOf(k) == sent[CHOOSE n \in 1..Len(sent) : sent[n].row.k = k].pass

\* the successes whose row was sent to create before pass p
SuccessesBefore(p) ==
  {AllSuccesses[j] : j \in {n \in 1..Len(AllSuccesses) :
                              SentPassOf(AllSuccesses[n].row.k) < p}}

\* C31: a row that holds, in a reference column, the id of input rows that
\* is not mapped when the run starts is sent to create in a later pass than
\* every such row that was created; and every reference value of a record
\* sent in a pass is a target id the run started with or the new id of a
\* record created in an earlier pass.
C31_VisibleNextPass ==
  \A i \in 1..Len(sent) :
    LET e == sent[i]
        refFields == refFieldsOf(e.object, InputHeaders[e.object])
    IN /\ \A c \in RefCells(e.object, e.row) :
            ~Has(initialIdMap, c.id) =>
              \A j \in 1..Len(AllSuccesses) :
                AllSuccesses[j].origId = c.id =>
                  SentPassOf(AllSuccesses[j].row.k) < e.pass
       /\ \A j \in 1..Len(refFields) :
            LET value == e.record[refFields[j].index]
            IN value # Undefined =>
                 \/ value = ExistingId
                 \/ \E s \in SuccessesBefore(e.pass) : s.newId = value

\* a record sent in pass 3 carries the new id of a record created in pass 2,
\* which carries the new id of a record created in pass 1
C31_Witness ==
  \E i, j \in 1..Len(sent) :
    /\ sent[i].pass = 3
    /\ sent[j].pass = 2
    /\ \E s \in SuccessesBefore(3) \ SuccessesBefore(2) :
         /\ s.row = sent[j].row
         /\ \E c \in RefCells(sent[i].object, sent[i].row) : c.id = s.origId
    /\ \E s \in SuccessesBefore(2) :
         \E c \in RefCells(sent[j].object, sent[j].row) : c.id = s.origId


\* ------------------------------------------- two files for the same object
\* the parsed datasets of two input files that both name Account; k numbers
\* the rows in input order
ParsedSameObject(c1, c2) ==
  <<[object |-> "Account", headers |-> InputHeaders["Account"],
     rows |-> [i \in 1..Len(c1) |-> [k |-> i, cells |-> c1[i]]]],
    [object |-> "Account", headers |-> InputHeaders["Account"],
     rows |-> [i \in 1..Len(c2) |-> [k |-> Len(c1) + i, cells |-> c2[i]]]]>>

\* upload: uploadDatasets is first called with the datasets of two Account
\* files, an empty target set and an empty idMap
InitB ==
  /\ \E n1 \in 0..MaxAccounts :
       \E n2 \in 0..MaxAccounts :
         \E c1 \in [1..n1 -> Cells("Account")] :
           \E c2 \in [1..n2 -> Cells("Account")] :
             input = ParsedSameObject(c1, c2)
  /\ datasets = input
  /\ targetIds = {}
  /\ initialTargetIds = {}
  /\ cancelled = FALSE
  /\ NoDump
  /\ NoCall
  /\ initialIdMap = <<>>
  /\ idMap = <<>>
  /\ uploadStatus = [totalCount |-> calcTotalUploadCount(input),
                     successes |-> <<>>, failures |-> <<>>, blocked |-> <<>>]
  /\ uploadings = <<>>
  /\ blocked = <<>>
  /\ successes = <<>>
  /\ failures = <<>>
  /\ pc = "classify"
  /\ reports = <<>>
  /\ nextId = 1
  /\ pass = 1
  /\ sent = <<>>
  /\ notLoadables = <<>>
  /\ creates = 0
  /\ run = 1
  /\ firstRun = [idMap |-> <<>>, creates |-> 0, failures |-> 0,
                 waiting |-> 0]
  /\ error = ""
  /\ policies = <<>>
  /\ targetOrg = [Account |-> <<>>, Contact |-> <<>>]

\* a load of two files for the same object
SpecB == InitB /\ [][Next]_vars

\* how many record-id pairs of the batches waiting for create are of row k
CountBatchedK(k) ==
  Cardinality({<<b, j>> \in (1..Len(uploadings)) \X (1..Cardinality(InputRows)) :
                 /\ j <= Len(uploadings[b].pairs)
                 /\ uploadings[b].pairs[j].row.k = k})

\* how many pending rows of the datasets are the input row k
CountPendingK(k) ==
  Cardinality({<<d, i>> \in (1..Len(datasets)) \X (1..Cardinality(InputRows)) :
                 /\ i <= Len(datasets[d].rows)
                 /\ datasets[d].rows[i].k = k})

\* every input row is in one place: pending, already mapped, in a batch
\* waiting for create, or sent to create
EveryRowOnce ==
  \A k \in InputKs :
    CountPendingK(k) + CountRowK(notLoadables, k)
      + CountBatchedK(k) + CountK(sent, k) = 1

\* C32: after every step each input row is pending, already mapped, in one
\* batch of the pass or sent to create, and in one of them only; the batches
\* of a pass are of different objects, and a create call is the only one of
\* its pass for its object.
C32_OneBatchPerObject ==
  [][/\ EveryRowOnce'
     /\ \A a, b \in 1..Len(uploadings') :
          uploadings'[a].object = uploadings'[b].object => a = b
     /\ creates' # creates =>
          /\ creates' = creates + 1
          /\ \A n \in 1..Len(sent) :
               ~(sent[n].pass = pass
                   /\ sent[n].object = Head(uploadings).object)]_vars

\* ------------------------------------------- row -> record, every field type
\* JavaScript values a record field can hold
JsUndefined == [type |-> "undefined", num |-> 0, str |-> "", bool |-> FALSE]
JsNumber(n) == [type |-> "number", num |-> n, str |-> "", bool |-> FALSE]
JsString(s) == [type |-> "string", num |-> 0, str |-> s, bool |-> FALSE]
JsBoolean(b) == [type |-> "boolean", num |-> 0, str |-> "", bool |-> b]
NaN == [type |-> "NaN", num |-> 0, str |-> "", bool |-> FALSE]

\* the field types of the switch in convertToRecordIdPair; "string" stands
\* for the types of the default case
FieldTypes == {"id", "int", "double", "currency", "percent", "date",
               "datetime", "boolean", "reference", "string"}
\* the texts a cell holds
CellTexts == {"", "0", "12", "7up", "x", "a", "false"}

\* parseInt / parseFloat on the cell texts: the leading digits, or NaN
parseInt(value) ==
  CASE value = "0" -> JsNumber(0)
    [] value = "12" -> JsNumber(12)
    [] value = "7up" -> JsNumber(7)
    [] OTHER -> NaN
parseFloat(value) ==
  CASE value = "0" -> JsNumber(0)
    [] value = "12" -> JsNumber(12)
    [] value = "7up" -> JsNumber(7)
    [] OTHER -> NaN

\* /^(|0|n|f|false)$/i.test(value)
falseText(value) ==
  value \in {"", "0", "n", "N", "f", "F", "false", "False", "FALSE"}

\* the mapped target id as a JavaScript value
idMapGet(m, value) ==
  IF Has(m, value) THEN JsString(Get(m, value)) ELSE JsUndefined

\* the switch with the boolean case writing whatever createable says
convertValue_booleanAlways(field, value, m) ==
  LET type == field.type
      createable == field.createable
  IN CASE type = "id" -> [set |-> FALSE, value |-> JsUndefined]
       [] type = "int" ->
            [set |-> parseInt(value) # NaN /\ createable,
             value |-> parseInt(value)]
       [] type \in {"double", "currency", "percent"} ->
            [set |-> parseFloat(value) # NaN /\ createable,
             value |-> parseFloat(value)]
       [] type \in {"date", "datetime"} ->
            [set |-> value # "" /\ createable, value |-> JsString(value)]
       [] type = "boolean" ->
            [set |-> TRUE, value |-> JsBoolean(~falseText(value))]
       [] type = "reference" ->
            [set |-> createable, value |-> idMapGet(m, value)]
       [] OTHER -> [set |-> createable, value |-> JsString(value)]

\* the switch of convertToRecordIdPair for one cell: whether record[name]
\* is assigned, and the value assigned
convertValue(field, value, m) ==
  LET type == field.type
      createable == field.createable
  IN CASE type = "id" -> [set |-> FALSE, value |-> JsUndefined]
       [] type = "int" ->
            [set |-> parseInt(value) # NaN /\ createable,
             value |-> parseInt(value)]
       [] type \in {"double", "currency", "percent"} ->
            [set |-> parseFloat(value) # NaN /\ createable,
             value |-> parseFloat(value)]
       [] type \in {"date", "datetime"} ->
            [set |-> value # "" /\ createable, value |-> JsString(value)]
       [] type = "boolean" ->
            [set |-> createable, value |-> JsBoolean(~falseText(value))]
       [] type = "reference" ->
            [set |-> createable, value |-> idMapGet(m, value)]
       [] OTHER -> [set |-> createable, value |-> JsString(value)]

\* the field of the description named header, <<>> if there is none
fieldNamed(fields, header) ==
  LET hits == {i \in 1..Len(fields) : fields[i].name = header}
  IN IF hits = {} THEN <<>> ELSE <<fields[CHOOSE i \in hits : TRUE]>>

\* record[name] = value on a record kept as its list of properties
assign(record, name, value) ==
  IF \E i \in 1..Len(record) : record[i].name = name
  THEN [i \in 1..Len(record) |->
          IF record[i].name = name THEN [name |-> name, value |-> value]
          ELSE record[i]]
  ELSE Append(record, [name |-> name, value |-> value])

\* the loop of convertToRecordIdPair from cell i on, acc = [id, record]
RECURSIVE convertCells(_, _, _, _, _, _)
convertCells(fields, headers, row, m, i, acc) ==
  IF i > Len(row) THEN acc
  ELSE LET found == fieldNamed(fields, headers[i])
       IN IF found = <<>>
          THEN convertCells(fields, headers, row, m, i + 1, acc)
          ELSE LET field == found[1]
                   out == convertValue(field, row[i], m)
               IN convertCells(
                    fields, headers, row, m, i + 1,
                    [id |-> IF field.type = "id" THEN row[i] ELSE acc.id,
                     record |-> IF out.set
                                THEN assign(acc.record, field.name, out.value)
                                ELSE acc.record])

\* convertToRecordIdPair over a description with fields of any type: the
\* pair, or the error thrown when no id was found
convertRow(fields, headers, row, m) ==
  LET pair == convertCells(fields, headers, row, m, 1,
                           [id |-> "", record |-> <<>>])
  IN IF pair.id = ""
     THEN [threw |-> TRUE, id |-> "", record |-> <<>>]
     ELSE [threw |-> FALSE, id |-> pair.id, record |-> pair.record]

\* the calls of convertToRecordIdPair: an object with the fields Id and F,
\* F of any type, createable or not; the row has these two columns in
\* either order, or a column the description does not have
ConvertCalls ==
  {[fn |-> "convertToRecordIdPair",
    fields |-> <<[name |-> "Id", type |-> "id", createable |-> idc],
                 [name |-> "F", type |-> t, createable |-> c]>>,
    headers |-> h, row |-> <<v1, v2>>, idMap |-> m] :
     idc \in BOOLEAN, t \in FieldTypes, c \in BOOLEAN,
     h \in {<<"Id", "F">>, <<"F", "Id">>, <<"Id", "Other">>},
     v1 \in {"", "a", "12"}, v2 \in CellTexts,
     m \in {<<>>, [x \in {"a"} |-> ExistingId]}}

CallConvertToRecordIdPair ==
  /\ pc = "call"
  /\ args.fn = "convertToRecordIdPair"
  /\ result' = convertRow(args.fields, args.headers, args.row, args.idMap)
  /\ pc' = "returned"
  /\ UNCHANGED <<loadVars, dumpVars, targetOrg, pass, reports, error, args>>

InitV ==
  /\ NoLoad
  /\ NoDump
  /\ targetOrg = [Account |-> <<>>, Contact |-> <<>>]
  /\ args \in ConvertCalls
  /\ result = <<>>
  /\ pc = "call"

SpecV == InitV /\ [][CallConvertToRecordIdPair]_vars

\* C33: the record convertToRecordIdPair builds for create has no property
\* for a field of type id nor for a field the description marks createable =
\* false, whatever the field's type; the id cell is the pair's id
C33_NoIdNoUncreateable ==
  (pc = "returned" /\ args.fn = "convertToRecordIdPair" /\ ~result.threw)
    => /\ \A i \in 1..Len(result.record) :
            \A j \in 1..Len(args.fields) :
              args.fields[j].name = result.record[i].name
                => (args.fields[j].type # "id" /\ args.fields[j].createable)
       /\ \E i \in 1..Len(args.headers) :
            /\ fieldNamed(args.fields, args.headers[i]) # <<>>
            /\ fieldNamed(args.fields, args.headers[i])[1].type = "id"
            /\ result.id = args.row[i]

\* a row with an id and a non-empty boolean cell of a field that is not
\* createable has been converted, and an id field marked createable too
C33_Witness ==
  /\ pc = "returned" /\ args.fn = "convertToRecordIdPair" /\ ~result.threw
  /\ args.fields[2].type = "boolean" /\ ~args.fields[2].createable
  /\ args.headers = <<"Id", "F">> /\ args.row = <<"a", "x">>
  /\ args.fields[1].createable
  /\ result.id = "a" /\ result.record = <<>>

\* ------------------------------------- a reference to an undescribed object
\* the headers of a Case file: OwnerId refers to Group and User, which are
\* not among the loaded objects and so are not described
CaseHeaders == <<"Id", "AccountId", "OwnerId">>
\* the rows of the Case file: the owner cell is empty, an id of the idMap
\* or of an Account row, or the id of a user
CaseCells == {<<"c", r, o>> : r \in {"", "a", "b"}, o \in {"", "a", "u"}}

\* the parsed datasets of an Account, an empty Contact and a Case file
ParsedWithCase(c1, c3) ==
  <<[object |-> "Account", headers |-> InputHeaders["Account"],
     rows |-> [i \in 1..Len(c1) |-> [k |-> i, cells |-> c1[i]]]],
    [object |-> "Contact", headers |-> InputHeaders["Contact"],
     rows |-> <<>>],
    [object |-> "Case", headers |-> CaseHeaders,
     rows |-> [i \in 1..Len(c3) |-> [k |-> Len(c1) + i, cells |-> c3[i]]]]>>

\* upload of an Account and a Case file with no target ids
InitO ==
  /\ \E n1 \in 0..MaxAccounts :
       \E n3 \in 0..MaxContacts :
         \E c1 \in [1..n1 -> Cells("Account")] :
           \E c3 \in [1..n3 -> CaseCells] :
             input = ParsedWithCase(c1, c3)
  /\ datasets = input
  /\ targetIds = {}
  /\ initialTargetIds = {}
  /\ cancelled = FALSE
  /\ NoDump
  /\ NoCall
  /\ initialIdMap \in InitialIdMaps
  /\ idMap = initialIdMap
  /\ uploadStatus = [totalCount |-> calcTotalUploadCount(input),
                     successes |-> <<>>, failures |-> <<>>, blocked |-> <<>>]
  /\ uploadings = <<>>
  /\ blocked = <<>>
  /\ successes = <<>>
  /\ failures = <<>>
  /\ pc = "classify"
  /\ reports = <<>>
  /\ nextId = 1
  /\ pass = 1
  /\ sent = <<>>
  /\ notLoadables = <<>>
  /\ creates = 0
  /\ run = 1
  /\ firstRun = [idMap |-> <<>>, creates |-> 0, failures |-> 0,
                 waiting |-> 0]
  /\ error = ""
  /\ policies = <<>>
  /\ targetOrg = [Account |-> <<>>, Contact |-> <<>>]

SpecO == InitO /\ [][Next]_vars

\* the reference columns all of whose referenceTo objects are undescribed
UndescribedRefColumns(dataset) ==
  {i \in 1..Len(dataset.headers) :
     LET field == findFieldDescription(dataset.object, dataset.headers[i])
     IN /\ field.type = "reference"
        /\ \A j \in 1..Len(field.referenceTo) :
              field.referenceTo[j] \notin DOMAIN Descriptions}

\* the reference columns with a described referenceTo object
DescribedRefColumns(dataset) ==
  {i \in 1..Len(dataset.headers) :
     LET field == findFieldDescription(dataset.object, dataset.headers[i])
     IN /\ field.type = "reference"
        /\ \E j \in 1..Len(field.referenceTo) :
              field.referenceTo[j] \in DOMAIN Descriptions}

\* C34: a reference column whose referenceTo names undescribed objects only
\* takes no part in classification: a classification pass puts every pending
\* row whose id is unmapped and whose cells in the other reference columns
\* are empty or mapped into the batch of its object, whatever its cell in
\* such a column, with the field set to idMap.get(cell) (undefined when the
\* cell is no key of the idMap); no blocked entry names such a column
C34_UndescribedReferenceIgnored ==
  [][/\ (pc = "classify" /\ pc' # "classify" /\ targetIds = {})
          => \A d \in 1..Len(datasets) :
               \A n \in 1..Len(datasets[d].rows) :
                 LET dataset == datasets[d]
                     row == dataset.rows[n]
                     id == row.cells[idIndexOf(dataset.object,
                                               dataset.headers)]
                 IN (/\ ~Has(idMap, id)
                     /\ \A i \in DescribedRefColumns(dataset) :
                          row.cells[i] = "" \/ Has(idMap, row.cells[i]))
                      => \E b \in 1..Len(uploadings') :
                           /\ uploadings'[b].object = dataset.object
                           /\ \E p \in 1..Len(uploadings'[b].pairs) :
                                LET pair == uploadings'[b].pairs[p]
                                IN /\ pair.row = row
                                   /\ \A i \in UndescribedRefColumns(dataset) :
                                        pair.record[i] = Get(idMap,
                                                             row.cells[i])
     /\ \A n \in 1..Len(blocked') :
          \A d \in 1..Len(input) :
            input[d].object = blocked'[n].object
              => \A i \in UndescribedRefColumns(input[d]) :
                   blocked'[n].blockingField # input[d].headers[i]
     /\ \A n \in 1..Len(uploadStatus'.blocked) :
          \A d \in 1..Len(input) :
            input[d].object = uploadStatus'.blocked[n].object
              => \A i \in UndescribedRefColumns(input[d]) :
                   uploadStatus'.blocked[n].blockingField
                     # input[d].headers[i]]_vars

\* a Case row whose owner cell u is no key of the idMap and another whose
\* owner cell is the id of an Account row created in the same pass have been
\* sent in the first pass, the owner field undefined
C34_Witness ==
  /\ \E i \in 1..Len(sent) :
       /\ sent[i].object = "Case" /\ sent[i].pass = 1
       /\ sent[i].row.cells[3] = "a" /\ sent[i].record[3] = Undefined
       /\ \E j \in 1..Len(sent) :
            /\ sent[j].object = "Account" /\ sent[j].pass = 1
            /\ sent[j].row.cells[1] = "a"

\* the number of data rows of the input files
InputRowCount == Cardinality(InputKs)

\* C35: totalCount is the number of input data rows, mapped and blocked rows
\* included, in the status and in every progress report; a pass issues a
\* report exactly when it was productive, as its last step; the sum
\* successCount + failureCount grows with every report and never exceeds
\* totalCount; the returned status carries the counts of the last report
C35_ProgressReports ==
  [][/\ uploadStatus'.totalCount = InputRowCount'
     /\ \A i \in 1..Len(reports') :
          /\ reports'[i].totalCount = InputRowCount'
          /\ reports'[i].successCount + reports'[i].failureCount
               <= InputRowCount'
          /\ i > 1 => reports'[i].successCount + reports'[i].failureCount
                        > reports'[i - 1].successCount
                            + reports'[i - 1].failureCount
     /\ (pc = "classify" /\ pc' # "classify")
          => /\ reports' = reports
             /\ pc' = "upload" <=> Len(uploadings') > 0
     /\ (pc = "upload" /\ pc' = "upload") => reports' = reports
     /\ (pc = "upload" /\ pc' # "upload")
          => /\ pc' = "classify"
             /\ Len(reports') = Len(reports) + 1
             /\ SubSeq(reports', 1, Len(reports)) = reports
     /\ pc \notin {"classify", "upload"} => reports' = reports
     /\ (pc' = "done" /\ reports' # <<>>)
          => /\ Len(uploadStatus'.successes)
                  = reports'[Len(reports')].successCount
             /\ Len(uploadStatus'.failures)
                  = reports'[Len(reports')].failureCount]_vars

\* a run of three input rows has ended after two productive passes, one
\* row being mapped from the start
C35_Witness ==
  /\ pc = "done"
  /\ Len(reports) = 2
  /\ reports[1].totalCount = 3
  /\ Len(notLoadables) > 0
  /\ reports[2].successCount + reports[2].failureCount = 2

\* the ids the seed queries on an object select
SeedIdsOf(object) ==
  UNION {IdsOf(queryRecords(queries[i])) :
           i \in {n \in 1..Len(queries) :
                    queries[n].target = "query"
                      /\ queries[n].object = object}}

\* fetchedCountPerObject[object], 0 for an object it does not list
CountOf(report, object) ==
  IF object \in DOMAIN report.fetchedCountPerObject
  THEN report.fetchedCountPerObject[object] ELSE 0

\* C36: a dump reports once when all seed queries are done, before the first
\* iteration; an iteration is the related expansion, a report, the dependent
\* expansion, a report; nothing else reports; fetchedCount never decreases
\* from report to report and is the sum of fetchedCountPerObject, which
\* counts the ids fetched so far
C36_DumpPhases ==
  [][/\ (pc = "query" /\ pc' # "failed")
          => /\ pc' \in {"related", "output"}
             /\ Len(reports') = 1
             /\ \A object \in {"Account", "Contact"} :
                  CountOf(reports'[1], object)
                    = Cardinality(SeedIdsOf(object))
     /\ pc = "related"
          => /\ pc' = "dependent"
             /\ Len(reports') = Len(reports) + 1
             /\ SubSeq(reports', 1, Len(reports)) = reports
     /\ pc = "dependent"
          => /\ pc' \in {"related", "output"}
             /\ Len(reports') = Len(reports) + 1
             /\ SubSeq(reports', 1, Len(reports)) = reports
     /\ pc \notin {"query", "related", "dependent"} => reports' = reports
     /\ reports' # reports
          => \A object \in {"Account", "Contact"} :
               CountOf(reports'[Len(reports')], object)
                 = Cardinality(GetOr(fetchedIdsMap', object, {}))
     /\ \A i \in 1..Len(reports') :
          /\ reports'[i].fetchedCount
               = CountOf(reports'[i], "Account")
                   + CountOf(reports'[i], "Contact")
          /\ DOMAIN reports'[i].fetchedCountPerObject
               \subseteq {"Account", "Contact"}
          /\ i > 1 => reports'[i].fetchedCount
                        >= reports'[i - 1].fetchedCount]_vars

\* a dump has ended after two iterations in which the related expansion of
\* the first and the dependent expansion of the first fetched records
C36_Witness ==
  /\ pc = "dumped"
  /\ Len(reports) = 5
  /\ reports[1].fetchedCount < reports[2].fetchedCount
  /\ reports[2].fetchedCount < reports[3].fetchedCount

\* C37: a load that starts with an empty target id set keeps it empty in
\* every pass, and in every pass each pending row whose id is unmapped and
\* whose reference cells are empty or mapped is taken as uploadable
C37_EmptyTargetsStayEmpty ==
  [][initialTargetIds = {}
       => /\ targetIds = {}
          /\ targetIds' = {}
          /\ (pc = "classify" /\ pc' # "classify")
               => \A d \in 1..Len(datasets) :
                    \A n \in 1..Len(datasets[d].rows) :
                      LET dataset == datasets[d]
                          row == dataset.rows[n]
                      IN (/\ ~Has(idMap, IdOf(dataset.object, row))
                          /\ \A c \in RefCells(dataset.object, row) :
                               Has(idMap, c.id))
                           => \E b \in 1..Len(uploadings') :
                                \E p \in 1..Len(uploadings'[b].pairs) :
                                  uploadings'[b].pairs[p].row = row]_vars

\* a load without target ids has ended after a third pass uploaded a row
\* that refers to a row uploaded in the second
C37_Witness ==
  /\ initialTargetIds = {}
  /\ pc = "done"
  /\ \E i, j \in 1..Len(sent) :
       /\ sent[i].pass = 3
       /\ sent[j].pass = 2
       /\ \E c \in RefCells(sent[i].object, sent[i].row) :
            c.id = IdOf(sent[j].object, sent[j].row)

\* ------------------------------------------- the same load in another order
\* the parsed datasets of an Account file and of a second file, of Contact
\* or of Account again; k numbers the rows
ParsedPair(object2, c1, c2) ==
  <<[object |-> "Account", headers |-> InputHeaders["Account"],
     rows |-> [i \in 1..Len(c1) |-> [k |-> i, cells |-> c1[i]]]],
    [object |-> object2, headers |-> InputHeaders[object2],
     rows |-> [i \in 1..Len(c2) |-> [k |-> Len(c1) + i, cells |-> c2[i]]]]>>

\* the datasets in the opposite order
SwapDatasets(ds) == [d \in 1..Len(ds) |-> ds[Len(ds) + 1 - d]]

\* the rows of every dataset in the opposite order
ReverseRows(ds) ==
  [d \in 1..Len(ds) |->
     [ds[d] EXCEPT !.rows = [i \in 1..Len(@) |-> @[Len(@) + 1 - i]]]]

\* the inputs a caller can give in place of ds: the same rows in the same
\* files, the files or the rows of each file in another order
PermutedInputs(ds) ==
  {SwapDatasets(ds), ReverseRows(ds), SwapDatasets(ReverseRows(ds))}

\* the status and idMap a load starts from
EmptyStatus(ds) ==
  [totalCount |-> calcTotalUploadCount(ds), successes |-> <<>>,
   failures |-> <<>>, blocked |-> <<>>]

\* loadCSVData on two files without mapping policies
InitP ==
  /\ \E object2 \in {"Account", "Contact"} :
       \E n1 \in 0..MaxAccounts :
         \E n2 \in 0..MaxContacts :
           \E c1 \in [1..n1 -> Cells("Account")] :
             \E c2 \in [1..n2 -> Cells(object2)] :
               input = ParsedPair(object2, c1, c2)
  /\ datasets = input
  /\ targetIds = {}
  /\ initialTargetIds = {}
  /\ cancelled = FALSE
  /\ NoDump
  /\ NoCall
  /\ initialIdMap = <<>>
  /\ idMap = <<>>
  /\ uploadStatus = EmptyStatus(input)
  /\ uploadings = <<>>
  /\ blocked = <<>>
  /\ successes = <<>>
  /\ failures = <<>>
  /\ pc = "classify"
  /\ reports = <<>>
  /\ nextId = 1
  /\ pass = 1
  /\ sent = <<>>
  /\ notLoadables = <<>>
  /\ creates = 0
  /\ run = 1
  /\ firstRun = [input |-> <<>>, status |-> EmptyStatus(<<>>),
                 idMap |-> <<>>]
  /\ error = ""
  /\ policies = <<>>
  /\ targetOrg = [Account |-> <<>>, Contact |-> <<>>]

\* loadCSVData is called on the same files and rows given in another order,
\* against a target org and an idMap as they were before the first load;
\* firstRun keeps what the first load returned
LoadPermuted ==
  /\ pc = "done"
  /\ run = 1
  /\ run' = 2
  /\ firstRun' = [input |-> input, status |-> uploadStatus, idMap |-> idMap]
  /\ \E ds \in PermutedInputs(input) :
       /\ input' = ds
       /\ datasets' = ds
       /\ uploadStatus' = EmptyStatus(ds)
  /\ targetIds' = {}
  /\ idMap' = <<>>
  /\ uploadings' = <<>>
  /\ blocked' = <<>>
  /\ successes' = <<>>
  /\ failures' = <<>>
  /\ pc' = "classify"
  /\ pass' = 1
  /\ notLoadables' = <<>>
  /\ nextId' = 1
  /\ sent' = <<>>
  /\ creates' = 0
  /\ reports' = <<>>
  /\ UNCHANGED <<initialIdMap, policies, targetOrg, error, initialTargetIds,
                 cancelled, dumpVars, utilVars>>

NextP ==
  \/ UploadDatasetsClassify
  \/ UploadRecordsCreate
  \/ UploadDatasetsReport
  \/ UploadDatasetsReturn
  \/ LoadPermuted

\* a load, and the load of the same rows in another order
SpecP == InitP /\ [][NextP]_vars

\* the rows (object and cells) of the entries of a list of a status
ContentsOf(list) ==
  {[object |-> list[i].object, cells |-> list[i].row.cells] :
     i \in 1..Len(list)}
\* the entries of a list of a status as the caller sees them
EntriesOf(list) ==
  {[object |-> list[i].object, origId |-> list[i].origId] :
     i \in 1..Len(list)}
BlockedEntriesOf(list) ==
  {[object |-> list[i].object, origId |-> list[i].origId,
    blockingField |-> list[i].blockingField,
    blockingId |-> list[i].blockingId] : i \in 1..Len(list)}

\* create treated equal rows alike in the two loads
SameOutcomes ==
  (ContentsOf(uploadStatus.successes)
     \cup ContentsOf(firstRun.status.successes))
    \cap (ContentsOf(uploadStatus.failures)
            \cup ContentsOf(firstRun.status.failures)) = {}

\* C38: when the second load, of the same rows in another order of files or
\* of rows, has ended and create treated equal rows alike, both loads
\* returned the same successes, failures and blocked rows as sets, and
\* idMaps with the same keys
C38_OrderIndependent ==
  (pc = "done" /\ run = 2 /\ SameOutcomes)
    => /\ EntriesOf(uploadStatus.successes)
            = EntriesOf(firstRun.status.successes)
       /\ EntriesOf(uploadStatus.failures)
            = EntriesOf(firstRun.status.failures)
       /\ BlockedEntriesOf(uploadStatus.blocked)
            = BlockedEntriesOf(firstRun.status.blocked)
       /\ DOMAIN idMap = DOMAIN firstRun.idMap

\* C38 for loads with one file per object
C38_OrderIndependentOfObjects ==
  (\A d, e \in 1..Len(input) : input[d].object = input[e].object => d = e)
    => C38_OrderIndependent

\* ------------------------------- the same dump, related queries reordered
\* the queries with the related queries in the opposite order, the seed
\* queries where they were
ReverseRelated(qs) ==
  LET relatedAt == {i \in 1..Len(qs) : qs[i].target = "related"}
      rank(i) == Cardinality({j \in relatedAt : j <= i})
      nth(n) == CHOOSE i \in relatedAt : rank(i) = n
  IN [i \in 1..Len(qs) |->
        IF i \in relatedAt
        THEN qs[nth(Cardinality(relatedAt) + 1 - rank(i))] ELSE qs[i]]

\* dumps with a seed query and related queries on Account and on Contact
ReorderedCalls ==
  {<<SeedQuery("Account", {AccountId(1)}),
     RelatedQuery("Contact"), RelatedQuery("Account")>>,
   <<SeedQuery("Account", {AccountId(1)}),
     RelatedQuery("Account"), RelatedQuery("Contact")>>,
   <<SeedQuery("Contact", {ContactId(1)}),
     RelatedQuery("Contact"), RelatedQuery("Account")>>}

InitG ==
  /\ NoLoad
  /\ NoCall
  /\ targetOrg \in DumpOrgs
  /\ queries \in ReorderedCalls
  /\ options = [hasIdMap |-> FALSE, idMap |-> <<>>, defaultNamespace |-> ""]
  /\ fetchedRecordsMap = <<>>
  /\ fetchedIdsMap = <<>>
  /\ newlyFetchedIdsMap = <<>>
  /\ sameMap = FALSE
  /\ prevCount = 0
  /\ fetchedCount = 0
  /\ csvs = <<>>
  /\ pc = "query"

\* dumpAsCSVData is called again on the same org with the related queries
\* listed in the opposite order; firstRun keeps the ids the first dump
\* fetched for each object
DumpReordered ==
  /\ pc = "dumped"
  /\ run = 1
  /\ run' = 2
  /\ firstRun' = [fetched |->
                    [object \in {"Account", "Contact"} |->
                       IdsOf(GetOr(fetchedRecordsMap, object, <<>>))]]
  /\ queries' = ReverseRelated(queries)
  /\ fetchedRecordsMap' = <<>>
  /\ fetchedIdsMap' = <<>>
  /\ newlyFetchedIdsMap' = <<>>
  /\ sameMap' = FALSE
  /\ prevCount' = 0
  /\ fetchedCount' = 0
  /\ csvs' = <<>>
  /\ reports' = <<>>
  /\ pass' = 0
  /\ pc' = "query"
  /\ UNCHANGED <<datasets, input, targetIds, initialTargetIds, idMap,
                 initialIdMap, uploadStatus, uploadings, blocked, successes,
                 failures, nextId, sent, notLoadables, creates, policies,
                 cancelled, utilVars, targetOrg, options, error>>

NextG ==
  \/ DumpQueryPrimaryRecords
  \/ DumpFetchAllRelatedRecords
  \/ DumpFetchAllDependentRecords
  \/ DumpRecordsAsCSV
  \/ DumpReordered

\* a dump, and the dump of the same org with the related queries reordered
SpecG == InitG /\ [][NextG]_vars

\* C39: when the dump with the related queries in the other order has ended,
\* it has fetched for every object the records the first dump fetched
C39_RelatedOrderIndependent ==
  (pc = "dumped" /\ run = 2)
    => \A object \in {"Account", "Contact"} :
         IdsOf(GetOr(fetchedRecordsMap, object, <<>>))
           = firstRun.fetched[object]

\* ----------------------------------------- several seed queries in a dump
\* dumps with two seed queries, on different objects and on the same
\* object, alone or followed by a related query
SeedCalls ==
  {<<SeedQuery("Account", {AccountId(1)}),
     SeedQuery("Contact", {ContactId(1)})>>,
   <<SeedQuery("Account", {AccountId(1)}),
     SeedQuery("Account", {AccountId(2)})>>,
   <<SeedQuery("Account", {AccountId(1)}),
     SeedQuery("Account", {AccountId(1), AccountId(2)}),
     RelatedQuery("Contact")>>}

InitS ==
  /\ NoLoad
  /\ NoCall
  /\ targetOrg \in DumpOrgs
  /\ queries \in SeedCalls
  /\ options = [hasIdMap |-> FALSE, idMap |-> <<>>, defaultNamespace |-> ""]
  /\ fetchedRecordsMap = <<>>
  /\ fetchedIdsMap = <<>>
  /\ newlyFetchedIdsMap = <<>>
  /\ sameMap = FALSE
  /\ prevCount = 0
  /\ fetchedCount = 0
  /\ csvs = <<>>
  /\ pc = "query"

\* dumps of several seed queries
SpecS == InitS /\ [][NextD]_vars

\* C40: when the seed queries are done, in whatever order they completed,
\* the ids fetched for an object are the ids its seed queries select, those
\* of all of them when several name the object, and they are the ids of the
\* records listed for the object
C40_SeedsUnion ==
  [][(pc = "query" /\ pc' # "failed")
       => \A object \in {"Account", "Contact"} :
            /\ GetOr(fetchedIdsMap', object, {}) = SeedIdsOf(object)
            /\ IdsOf(GetOr(fetchedRecordsMap', object, <<>>))
                 = GetOr(fetchedIdsMap', object, {})]_vars

\* the part of C40 that holds: the ids of an object are those of its records
C40_IdsMatchRecords ==
  \A object \in DOMAIN fetchedIdsMap :
    IdsOf(GetOr(fetchedRecordsMap, object, <<>>)) = fetchedIdsMap[object]

====
